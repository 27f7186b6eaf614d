\* Every small table, as a sheet and as a text, and the life of its tasks with
\* two sources up to the word that status says of them, under two executors.
CONSTANTS
    title = title
    alice = alice
    bob = bob
    NoWord = NoWord
    Words <- MCWords
    Titles <- MCTitles
    Tables <- MCTables
    Checks = {s1, s2}
    Executors = {e1, e2}
    Exclusive = TRUE
    MaxNames = 2
CHECK_DEADLOCK FALSE
SPECIFICATION Spec
INVARIANTS ImportedOnceInOrder CompletedIsFinal CountNotAhead
