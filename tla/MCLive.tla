-------------------------------- MODULE MCLive --------------------------------
(* The three services of the live side: the orders of one broker session, the *)
(* shared feed and the instrument master.  They share no variable, so TLC     *)
(* runs one at a time: a behaviour picks one, and the others stand still.     *)
EXTENDS LiveOrder, LiveFeed, Instruments

VARIABLE focus  \* the service this behaviour is about

ordersAlone == <<focus, feedVars, masterVars>>
feedAlone == <<focus, vars, masterVars>>
masterAlone == <<focus, vars, feedVars>>

LiveInit ==
  /\ focus \in {"orders", "feed", "master"}
  /\ Init /\ FeedInit /\ MasterInit

LiveNext ==
  \/ focus = "orders" /\ Next /\ UNCHANGED ordersAlone
  \/ focus = "feed" /\ FeedNext /\ UNCHANGED feedAlone
  \/ focus = "master" /\ MasterNext /\ UNCHANGED masterAlone

\* The fairness of FairSpec of LiveOrder, where the orders are the focus.
liveVars == <<focus, vars, feedVars, masterVars>>
OrdersDo(A) == focus = "orders" /\ A /\ UNCHANGED ordersAlone
LiveSpec ==
  /\ LiveInit /\ [][LiveNext]_liveVars
  /\ \A h \in Handlers : WF_liveVars(OrdersDo(InCall(h)))
  /\ WF_liveVars(OrdersDo(FeedLogin))
===============================================================================
