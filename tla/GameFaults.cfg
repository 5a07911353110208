SPECIFICATION Spec
CONSTANTS
  Attempts <- FiveCells
  MaxInbox = 1
  MayFail = {0, 1}
  Interrupts = TRUE
INVARIANTS TypeOK ViewsAgree VerdictsAgree OffersAgree NothingAfterOver OverReachesBoth
