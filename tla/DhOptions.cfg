\* Command lines with strings, custom options and padding; offers without PAD
SPECIFICATION Spec
CHECK_DEADLOCK FALSE
CONSTANTS
    Commands <- FewCommands
    Offers <- Plain
    ServerIds <- Servers
    MaxCustom = 2
    BuffSize = 500
    Filler = 255
    Headers <- FewHeaders
INVARIANTS
    TypeOK
    SentAsAsked
    OfferRead
    RequestNamesOffer
    DatagramsAccepted
