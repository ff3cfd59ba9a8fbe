\* Two threads log entries of up to 2 bytes into a ring of 4 (5 asked for), with
\* 3-bit counters, on a port that waits and on one that does not.
CONSTANTS
    Writers = {w1, w2}
    NULL = NULL
    Request = 5
    BuffSize = 2
    Width = 3
    MaxPosts = 1
SPECIFICATION Spec
PROPERTIES RingIsQueue NothingStuck
