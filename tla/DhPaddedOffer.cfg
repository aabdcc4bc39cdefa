\* An offer with a PAD between two options.
SPECIFICATION Spec
CHECK_DEADLOCK FALSE
CONSTANTS
    Commands <- OneCommand
    Offers <- Padded
    ServerIds <- Servers
    MaxCustom = 2
    BuffSize = 500
    Filler = 255
    Headers = {}
INVARIANTS
    OfferRead
