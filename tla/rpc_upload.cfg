SPECIFICATION Spec
CONSTANTS
  Requests = {"put", "get"}
  Uploads = {"put"}
  Downloads = {"get"}
  Deferred = {"get"}
  Nil = Nil
  kMaxAbandonedIds = 1
INVARIANT UploadComesFromStream
