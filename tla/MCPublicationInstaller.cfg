CONSTANTS
  Candidates <- MCCandidates
  MaxRevision = 3
  NoRoot = NoRoot
  Callers = {t1, t2}
  NoCaller = NoCaller
  NoTicket = NoTicket
  MaxGeneration = 4
  d1 = d1
  d2 = d2
SPECIFICATION Spec
INVARIANTS TicketTracksPhase
PROPERTIES ServesOneRegister PhaseBelongsToTicket
