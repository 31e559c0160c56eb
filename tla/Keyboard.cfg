\* Strings of two keys, a buffer of two, and six keys that may all come
\* before Login reads the first: the buffer can overflow, both lines can end
\* by RETURN or by length, and a second pair of lines can be read over the
\* first.
SPECIFICATION FairSpec
CONSTANTS
  QUE_MAX = 2
  STR_MAX = 3
  Letters = {"a", "b"}
  KEY_MAX = 6
INVARIANTS
  TypeOK
  NoKeyForWaiter
  KeysInOrder
PROPERTIES
  VerdictIsRight
  KeysTaken
\* When EnQue has stopped in the debugger and every key is typed nothing moves.
CHECK_DEADLOCK FALSE
