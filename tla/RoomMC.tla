------------------------------ MODULE RoomMC ------------------------------
(***************************************************************************)
(* Small rooms for RoomRouting: a publishes from shard s1, b receives on   *)
(* shard s2.  Each scenario fixes who connects, in which order, and what   *)
(* they publish.                                                           *)
(***************************************************************************)
EXTENDS RoomRouting, TLC

CONSTANTS a, b, s1, s2, t1, t2, chat

TwoHomes == (a :> s1) @@ (b :> s2)

\* a and b connect once.
OnceEach == <<a, b>>

\* a connects twice, publishing a video track first and then a topic.
PublisherTwice == <<a, a, b>>
OneFromEach == (t1 :> 1) @@ (t2 :> 2)
VideoThenTopic == (t1 :> "video") @@ (t2 :> chat)

\* b connects twice, or three times, to a room with one track or two of a's.
SubscriberTwice == <<a, b, b>>
SubscriberThrice == <<a, b, b, b>>
OneFromFirst == t1 :> 1
BothFromFirst == (t1 :> 1) @@ (t2 :> 1)
OneAudio == t1 :> "audio"
OneVideo == t1 :> "video"
VideoAndAudio == (t1 :> "video") @@ (t2 :> "audio")
===========================================================================
