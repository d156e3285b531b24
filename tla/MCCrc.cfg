SPECIFICATION Spec
CONSTANTS
    Threads = {t1, t2}
    Operations = {"init", "enable", "factory", "nvm", "save", "plain"}
    MaxOps = 3
    MaxResets = 1
INVARIANT TypeOK
INVARIANT Agreement
INVARIANT InitSucceeds
