CONSTANTS
    b1 = b1  b2 = b2  k1 = k1  k2 = k2  k3 = k3  g1 = g1  g2 = g2
    i1 = i1  i2 = i2  c1 = c1  c2 = c2  key = key  other = other
    Command <- MCCommand
    Response <- MCResponse
    Key = {b1, b2, k1, k2, k3}
    AttrList = {k3}
    GroupKey = {g1, g2}
    None = None
    Folder <- MCFolder
    Buffer <- MCBuffer
    MaxFolders = 3
    Nothing = Nothing
    Selector = {i1, i2, c1, c2, key, other}
    IntAttr = {i1, i2}
    CharAttr = {c1, c2, key}
    AttrLength <- MCAttrLength
    Secret = key
    Inquiry <- MCInquiry
    Setting <- MCSetting
    NoReply = NoReply
SPECIFICATION Spec
INVARIANTS TypeOK SentAsAsked ReadsAsWritten PacksWhatItHas EachItsOwn
