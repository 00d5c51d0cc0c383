------------------------------ MODULE Channel ------------------------------
(***************************************************************************)
(* muduo-mgkl: a Channel (src/Channel.cpp) and what EPollPoller knows of it*)
(* (src/EPollPoller.cpp).  events_ is what the channel wants, index_ where *)
(* it stands with the poller, and epoll what the kernel watches for it:    *)
(* the set of events it is registered with, or NotWatched.                 *)
(***************************************************************************)
CONSTANT NotWatched    \* the file descriptor is not in the epoll set

Events == {"read", "write"}

ChannelType == [events : SUBSET Events,
                index  : {"kNew", "kAdded", "kDeleted"},
                epoll  : (SUBSET Events) \union {NotWatched}]

\* The constructor.
NewChannel == [events |-> {}, index |-> "kNew", epoll |-> NotWatched]

\* Bug: the kernel is not told of a change.
BugUpdateChannelNoMod(ch, events) ==
    IF ch.index \in {"kNew", "kDeleted"}
    THEN [events |-> events, index |-> "kAdded", epoll |-> events]
    ELSE IF events = {}
         THEN [events |-> events, index |-> "kDeleted", epoll |-> NotWatched]
         ELSE [ch EXCEPT !.events = events]

\* EPollPoller::updateChannel() after events_ has been set.  A channel that was
\* never added or was deleted is added whatever its events; one that is added
\* is deleted when it wants nothing, and modified otherwise.
UpdateChannel(ch, events) ==
    IF ch.index \in {"kNew", "kDeleted"}
    THEN [events |-> events, index |-> "kAdded", epoll |-> events]
    ELSE IF events = {}
         THEN [events |-> events, index |-> "kDeleted", epoll |-> NotWatched]
         ELSE [events |-> events, index |-> "kAdded", epoll |-> events]

EnableReading(ch) == UpdateChannel(ch, ch.events \union {"read"})
EnableWriting(ch) == UpdateChannel(ch, ch.events \union {"write"})
DisableWriting(ch) == UpdateChannel(ch, ch.events \ {"write"})
DisableAll(ch) == UpdateChannel(ch, {})

IsWriting(ch) == "write" \in ch.events

\* EPollPoller: a channel is watched for what it wants exactly while it is
\* kAdded.
WatchedAsWanted(ch) ==
    IF ch.index = "kAdded" THEN ch.epoll = ch.events ELSE ch.epoll = NotWatched
=============================================================================
