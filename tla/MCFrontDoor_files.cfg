SPECIFICATION Spec
CONSTANTS
  upload = upload
  run = run
  Uploads = {upload}
  Runs = {run}
  TTL = 2
  MaxCrashes = 1
INVARIANTS
  ToldFilesServe
  OrphansAreCrashes
PROPERTIES
  ToldFilesExpire
  PollsEnd
CHECK_DEADLOCK FALSE
