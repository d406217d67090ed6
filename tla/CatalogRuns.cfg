\* Any number of full passes and deltas, two at a time, over three days.
SPECIFICATION Spec
CONSTANTS
    Shows = {a, b}
    Runs = {r1, r2}
    Thresholds = {1, 2}
    MaxDay = 2
    MaxChanges = 1
    Absent = Absent
INVARIANTS NoChangeLost PassCovers
SYMMETRY Symmetric
