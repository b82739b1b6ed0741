\* Two scans (one a refresh), two file requests, a planning session and two
\* executions, and the maintenance pass, in every order.
SPECIFICATION Spec
CONSTANTS
    Scans = {library, member}
    Refreshes = {member}
    Files = {f1, f2}
    Sessions = {plan, e1, e2}
    Executions = {e1, e2}
INVARIANTS TypeOK SlotsAreKept
