-------------------------------- MODULE Poller --------------------------------
(***************************************************************************)
(* What the abstract class muduo::net::Poller promises the loop: it        *)
(* watches what each of its channels asks for, and poll() hands out        *)
(* channels with events they asked for, or a hang-up.  PollPoller and      *)
(* EPollPoller are shown to keep the promise in DefaultPoller.             *)
(***************************************************************************)
EXTENDS Functions

CONSTANTS Channels, Events

\* What is watched of a channel that stopped asking: not even a hang-up.
Silent == {"silent"}

VARIABLES
    watch,      \* of each channel in channels_, what is watched of its descriptor
    active      \* what poll() handed out and was not handled: channel to events

Registered == DOMAIN watch

Init == watch = <<>> /\ active = <<>>

\* updateChannel(): what was watched and is not asked for any more is not watched.
Update(c) ==
    /\ DOMAIN watch' = Registered \union {c}
    /\ watch'[c] \in (SUBSET Events) \union {Silent}
    /\ (c \in Registered /\ watch[c] # Silent) => watch'[c] # {}
    /\ \A d \in Registered \ {c} : watch'[d] = watch[d]
    /\ UNCHANGED active

\* removeChannel(): of a channel that asks for nothing and is not about to be handled.
RemoveChannel(c) ==
    /\ c \in Registered \ DOMAIN active
    /\ watch[c] \in {{}, Silent}
    /\ watch' = Restrict(watch, Registered \ {c})
    /\ UNCHANGED active

\* poll()
Poll ==
    /\ active = <<>>
    /\ DOMAIN active' \subseteq Registered
    /\ \A c \in DOMAIN active' :
        /\ watch[c] # Silent
        /\ active'[c] \in (SUBSET (watch[c] \union {"hup"})) \ {{}}
    /\ UNCHANGED watch

\* The loop calls handleEvent() of one of them.
Handle ==
    /\ \E c \in DOMAIN active : active' = Restrict(active, DOMAIN active \ {c})
    /\ UNCHANGED watch

Next == Poll \/ Handle \/ \E c \in Channels : Update(c) \/ RemoveChannel(c)

Spec == Init /\ [][Next]_<<watch, active>>

=============================================================================
