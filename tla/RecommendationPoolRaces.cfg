SPECIFICATION Spec
CONSTANTS
    Recs = {r1}
    Sessions = {s1, s2}
    Reports = {"ERP_APPROVED", "EXECUTED", "EXECUTION_FAILED", "CLOSED"}
    Details = {d1}
    MaxCalls = 2
    Unreliable = {"PMS_APPROVED"}
    None = None
INVARIANTS TypeOK ToldIsTrue SubmittedIsKnown ErpStateWasApproved ColumnsAgree SomeoneGoesOn
PROPERTIES ImplementsLifecycle
SYMMETRY Symmetry
VIEW Seen
