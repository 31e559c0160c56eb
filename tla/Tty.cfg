\* Two processes of which one may write and one may read at a time, strings of
\* up to three characters, and six keys that may arrive at any moment.  An echo
\* queue of three can overflow.
SPECIFICATION FairSpec
CONSTANTS
  Users = {1, 2}
  QUE_MAX = 3
  TEXT_MAX = 3
  KEY_MAX = 6
  MAX_WRITERS = 1
  MAX_READERS = 1
INVARIANTS
  TypeOK
  WaitersAreQueued
  ChainUnbroken
PROPERTIES
  ReleasedWhenServed
  WriteReturns
