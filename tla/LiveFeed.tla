------------------------------- MODULE LiveFeed -------------------------------
(* The upstream feed that all websockets of one user and symbol share         *)
(* (feed_registry.py), and the routes that subscribe to it (live_market_ws).  *)
(* The registry's entry changes under a lock; the feed itself is started,     *)
(* subscribed and stopped after the lock is released.                         *)
EXTENDS Naturals, Sequences, FiniteSets

CONSTANTS
  Clients,   \* the websockets
  NoFeed,    \* no entry in the registry
  MaxFeeds   \* bound: feeds created

ASSUME FeedAssumption == NoFeed \notin Nat /\ MaxFeeds \in Nat

VARIABLES
  registry,  \* the number of the registered feed, or NoFeed
  feeds,     \* every feed created: whether its thread runs, and its callbacks
  cooling,   \* a feed was created less than MIN_CREATE_INTERVAL_SECONDS ago
  fanout,    \* callbacks the thread of a feed took for a tick and has to call
  socket,    \* what the route of each client is doing
  unread,    \* clients with a tick in their queue
  leaked     \* history: clients whose subscription raised after it was entered

feedVars == <<registry, feeds, cooling, fanout, socket, unread, leaked>>

\* Feed f with other callbacks, and in another state of its thread.
WithCallbacks(f, callbacks) ==
  [feeds EXCEPT ![f] = [thread |-> feeds[f].thread, callbacks |-> callbacks]]
WithThread(f, thread) ==
  [feeds EXCEPT ![f] = [thread |-> thread, callbacks |-> feeds[f].callbacks]]

FeedInit ==
  /\ registry = NoFeed /\ feeds = <<>> /\ cooling = FALSE /\ fanout = {}
  /\ socket = [c \in Clients |-> [at |-> "out"]] /\ unread = {} /\ leaked = {}

\* The symbol is resolved and the session opened first, and either may fail.
Connect(c) ==
  /\ socket[c].at = "out" /\ socket' = [socket EXCEPT ![c] = [at |-> "resolved"]]
  /\ UNCHANGED <<registry, feeds, cooling, fanout, unread, leaked>>

ConnectFails(c) ==
  /\ socket[c].at = "resolved" /\ socket' = [socket EXCEPT ![c] = [at |-> "out"]]
  /\ UNCHANGED <<registry, feeds, cooling, fanout, unread, leaked>>

\* acquire_feed, under the lock: join the registered feed, or register a new one
\* unless the last was created too recently.
Join(c) ==
  /\ socket[c].at = "resolved" /\ registry # NoFeed
  /\ feeds' = WithCallbacks(registry, feeds[registry].callbacks \cup {c})
  /\ socket' = [socket EXCEPT ![c] = [at |-> "watching"]]
  /\ UNCHANGED <<registry, cooling, fanout, unread, leaked>>

Register(c) ==
  /\ socket[c].at = "resolved" /\ registry = NoFeed /\ ~cooling /\ Len(feeds) < MaxFeeds
  /\ feeds' = Append(feeds, [thread |-> "new", callbacks |-> {c}])
  /\ registry' = Len(feeds) + 1
  /\ cooling' = TRUE
  /\ socket' = [socket EXCEPT ![c] = [at |-> "registered", feed |-> Len(feeds) + 1]]
  /\ UNCHANGED <<fanout, unread, leaked>>

Throttled(c) ==
  /\ socket[c].at = "resolved" /\ registry = NoFeed /\ cooling
  /\ socket' = [socket EXCEPT ![c] = [at |-> "out"]]
  /\ UNCHANGED <<registry, feeds, cooling, fanout, unread, leaked>>

Cool == cooling /\ cooling' = FALSE
        /\ UNCHANGED <<registry, feeds, fanout, socket, unread, leaked>>

\* Outside the lock: the feed's thread is started and the symbol subscribed.
StartFeed(c) ==
  /\ socket[c].at = "registered"
  /\ feeds' = WithThread(socket[c].feed, "running")
  /\ socket' = [socket EXCEPT ![c] = [at |-> "started", feed |-> socket[c].feed]]
  /\ UNCHANGED <<registry, cooling, fanout, unread, leaked>>

Subscribe(c) ==
  /\ socket[c].at = "started"
  /\ socket' = [socket EXCEPT ![c] = [at |-> "watching"]]
  /\ UNCHANGED <<registry, feeds, cooling, fanout, unread, leaked>>

\* The socket is not open yet, and subscribe raises what the route does not catch.
SubscribeRaises(c) ==
  /\ socket[c].at = "started"
  /\ socket' = [socket EXCEPT ![c] = [at |-> "gone"]]
  /\ leaked' = leaked \cup {c}
  /\ UNCHANGED <<registry, feeds, cooling, fanout, unread>>

\* A tick: the feed's thread copies the callbacks of the registered feed under
\* the lock and calls them afterwards.
Fanout(f) ==
  /\ feeds[f].thread = "running" /\ fanout = {}
  /\ fanout' = IF registry = NoFeed THEN {} ELSE feeds[registry].callbacks
  /\ UNCHANGED <<registry, feeds, cooling, socket, unread, leaked>>

OnTick(c) ==
  /\ c \in fanout /\ fanout' = fanout \ {c} /\ unread' = unread \cup {c}
  /\ UNCHANGED <<registry, feeds, cooling, socket, leaked>>

SendTick(c) ==
  /\ socket[c].at = "watching" /\ c \in unread /\ unread' = unread \ {c}
  /\ UNCHANGED <<registry, feeds, cooling, fanout, socket, leaked>>

\* release_feed, under the lock: the last to leave takes the entry away.
AnyoneLeft(callbacks) == TRUE
LastLeft(callbacks) == callbacks = {}

Disconnect(c) ==
  /\ socket[c].at = "watching"
  /\ IF registry = NoFeed
     THEN /\ socket' = [socket EXCEPT ![c] = [at |-> "out"]]
          /\ UNCHANGED <<registry, feeds>>
     ELSE /\ feeds' = WithCallbacks(registry, feeds[registry].callbacks \ {c})
          /\ IF LastLeft(feeds[registry].callbacks \ {c})
             THEN /\ registry' = NoFeed
                  /\ socket' = [socket EXCEPT ![c] = [at |-> "stopping", feed |-> registry]]
             ELSE /\ socket' = [socket EXCEPT ![c] = [at |-> "out"]]
                  /\ UNCHANGED registry
  /\ UNCHANGED <<cooling, fanout, unread, leaked>>

\* Outside the lock: the feed is closed.
StopFeed(c) ==
  /\ socket[c].at = "stopping"
  /\ feeds' = WithThread(socket[c].feed, "stopped")
  /\ socket' = [socket EXCEPT ![c] = [at |-> "out"]]
  /\ UNCHANGED <<registry, cooling, fanout, unread, leaked>>

FeedNext ==
  \/ Cool \/ \E f \in 1..Len(feeds) : Fanout(f)
  \/ \E c \in Clients :
       \/ Connect(c) \/ ConnectFails(c) \/ Join(c) \/ Register(c) \/ Throttled(c)
       \/ StartFeed(c) \/ Subscribe(c) \/ SubscribeRaises(c)
       \/ OnTick(c) \/ SendTick(c) \/ Disconnect(c) \/ StopFeed(c)

FeedSpec == FeedInit /\ [][FeedNext]_feedVars

-------------------------------------------------------------------------------
\* One upstream feed lives exactly as long as somebody watches it: a watcher is
\* entered with the registered feed, which is never stopped under it; and when
\* nobody is there, no entry and no running feed is left, unless a subscription
\* raised after it was entered, which leaves its entry for good.
FeedFollowsWatchers ==
  /\ \A c \in Clients : socket[c].at = "watching" =>
       /\ registry # NoFeed /\ c \in feeds[registry].callbacks
       /\ feeds[registry].thread # "stopped"
  /\ leaked = {} /\ (\A c \in Clients : socket[c].at \in {"out", "resolved"}) =>
       /\ registry = NoFeed
       /\ \A f \in 1..Len(feeds) : feeds[f].thread = "stopped"
===============================================================================
