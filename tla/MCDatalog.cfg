CONSTANTS
    x = x  y = y  z = z
    Edge = Edge  Path = Path  Mark = Mark
    base = base  step = step  other = other
    Vars = {x, y, z}
    Values = {1, 2, 3}
    Relations = {Edge, Path, Mark}
    RuleIds = {base, step, other}
    Tasks <- MCTasks
    None = None
SPECIFICATION Spec
INVARIANTS EvaluationExact EvaluatorsAgree
