SPECIFICATION Spec
CONSTANTS
    MaxRules = 2
    Configs = {c1, c2}
    Urls = {u1}
    Secrets = {x1}
    Requests = {q1, q2, q3}
    MaxClicks = 5
    Mask = Mask
    Nil = Nil
INVARIANTS RulesAgree WaitsHonest
PROPERTIES SecretKept
CHECK_DEADLOCK FALSE
