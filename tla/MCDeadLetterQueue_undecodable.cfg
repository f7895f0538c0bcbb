\* As in the program: FailedEvent.Event is an interface, which json.Unmarshal
\* cannot fill, so no message decodes.
SPECIFICATION Spec
CONSTANTS
  Events = {e1, e2}
  Decodable = {}
  Callers = {p1}
  localBufferSize = 1
  maxRetries = 3
PROPERTIES RetriedBeforeLeaving
