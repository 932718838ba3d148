SPECIFICATION FairFeedbackSpec
CONSTANTS
    Recs = {r1}
    Sessions = {w, h}
    Worker = w
    Reports = {"ERP_APPROVED", "EXECUTION_FAILED"}
    Details = {d1}
    MaxCalls = 2
    Unreliable = {}
    BatchSize = 2
    MaxSent = 2
    None = None
INVARIANTS FeedbackTypeOK LossHasACause AppliedTwiceHasACause
PROPERTIES FullBatchIsHandled
