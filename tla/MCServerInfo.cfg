\* Two calls, while a server reaches the timelines 126 to 129.
CONSTANTS
  c1 = c1
  c2 = c2
  Calls <- TwoCalls
  FirstTimeline = 126
  MaxTimeline = 129
  Builds <- TwoBuilds
SPECIFICATION Spec
SYMMETRY Symmetry
INVARIANT TypeOK
INVARIANT NoWritableStandby
INVARIANT RepliesDoNotGoBack
