\* Two threads of the API, one district of which a window is written again, and
\* an evening on which the page stays open.
SPECIFICATION MCSpec
CONSTANTS
  None = None
  Threads = {t1, t2}
  Districts <- MCDistricts
  Places <- MCPlaces
  Hours <- NoonOrEvening
  MaxWindow = 2
  MaxRows = 2
SYMMETRY Interchangeable
INVARIANTS
  QueriesConfigured
  PageNeverGoesBack
  ShownStaysOpen
