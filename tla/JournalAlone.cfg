SPECIFICATION Spec
CONSTANTS
  dated = dated
  undated = undated
  s1 = s1
  u1 = u1
  Keys = {undated}
  Sweeps = {s1}
  Users = {u1}
  LastDay = 2
  MaxRev = 3
  StartedOn <- UndatedStart
  Located = {undated}
  Substantive <- LastRevOnly
  AutoDismissNoop = TRUE
  Alone = TRUE
  MaxFaults = 2
INVARIANTS
  RecordNotAhead
  OneShardPerSession
  FreshEntryCoversRecord
PROPERTIES
  DecisionsOutrank
  DismissalSparesEntries
  GrownAreRetracted
  FollowsLifecycle
