CONSTANTS
    Producer = {p1}
    Consumer = {w1, w2}
    Value = {a}
    MaxNodes = 1
SPECIFICATION Spec
INVARIANTS EachTaskOnce
