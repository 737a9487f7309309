CONSTANTS
    Threads = {t1, t2}
    MaxTasks <- MCMaxTasks
SPECIFICATION Spec
PROPERTY QuitRequestObserved
