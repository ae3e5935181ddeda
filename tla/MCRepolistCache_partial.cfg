SPECIFICATION Spec
CONSTANTS
    Request = {q1, q2}
    Child = {c1}
    Repo = {r1, r2}
    Inode = {f1, f2, f3, f4}
    None = None
    Crashes = FALSE
SYMMETRY Symmetric
INVARIANT ParsesWholeResult
