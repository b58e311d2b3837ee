\* Overlapping requests about one creator's contents, with a restart; two
\* reviews of two users and a failing worker; overlapping saves of a video; or migrations that crash.
CONSTANTS
  u1 = u1
  p1 = p1
  None = None
  Users = {u1, u2}
  Albums = {a1, a2}
  Photos = {p1}
  Others = {v1}
  OwnerOf <- MCOwnerOf
  Procs = {r1, r2}
  MaxViews = 1
  MaxMoves = 1
  MaxCrashes = 1
  People = {u1, u2}
  Creators = {u1}
  Items = {p1}
  CreatorOf <- MCCreatorOf
  Callers = {r1, r2}
  Rated = {u1, u2}
  Reviews = {w1, w2}
  Stars = {1, 2}
  Writers = {r1, r2}
  MaxChanges = 3
  MaxFaults = 1
  OldVideos = {v1, v2}
  OldAlbums = {a1}
  OldPhotos = {p1}
  OldChats = {c1}
  OldUsers = {u1}
  MaxRuns = 3
  MaxStops = 1
  MaxKeys = 3
  Parts = {1}
  Savers = {r1, r2}
  MaxSaves = 3
SPECIFICATION Spec
INVARIANTS
  ContentCounters
  RatingSettled
  PositionTrue
  FilmWhole
PROPERTIES
  CounterFollowsRead
  FavoritesMerge
  JobsEnd
  CountsSurvive
\* The bounds end all runs.
CHECK_DEADLOCK FALSE
