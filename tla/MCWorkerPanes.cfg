\* Two panes, two terminals, three launches at any time, one retry pass at a time.
SPECIFICATION FairSpec
CONSTANTS
    Pane = {p1, p2}
    MaxLaunch = 3
    Allowance = 2
    MaxPass = 1
INVARIANTS TypeOK RecordNamesItsProcess HeldAccountsForLedger
PROPERTIES ImplementsTerminalCount TerminalsComeBack
