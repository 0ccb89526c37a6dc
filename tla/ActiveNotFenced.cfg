SPECIFICATION ErasureSpec
CONSTANTS
    Accounts = {1}
    Deleters = {d1, d2}
    Resumers = {e1}
    Writers = {w1}
    Nil = Nil
INVARIANT ActiveNotFenced
