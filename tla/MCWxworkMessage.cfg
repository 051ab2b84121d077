\* Texts of up to three characters, below, at and above the block boundary.
CONSTANTS
    Text <- Texts
    CorpId <- OwnCorp
    OtherCorp <- ForeignCorp
    Random <- Randoms
    Nonce = {n1, n2}
SPECIFICATION FormatSpec
INVARIANTS
    ReadBack
    PaddingIsLeast
\* An exchange ends when the message is read.
CHECK_DEADLOCK FALSE
