SPECIFICATION Spec
CONSTANTS
    Clients = {c1, c2}
    c1 = c1
    c2 = c2
    Ops = {o3, o5}
    o3 = o3
    o5 = o5
    Runtime = o3
    Retries = 2
    MaxQueue = 2
INVARIANTS TypeOK ReadyIsServed AttemptStartsClean
PROPERTIES AnswersAreFresh ChannelSpec ResetWhole RequestsEnd LinkLossNoticed
