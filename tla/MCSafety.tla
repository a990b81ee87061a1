------------------------------ MODULE MCSafety ------------------------------
(***************************************************************************)
(* Several modules in one run, one at a time: "part" names the module that *)
(* moves in this behaviour, and the others rest in an initial state. No    *)
(* two share a variable, so each is checked on its own state space and the *)
(* spaces add up.                                                          *)
(***************************************************************************)
EXTENDS MCPlaneLifecycle, ContactStore, Messages, Publishing, Topics, ManifestCache, OwnerPayload

\* Bound of the model: what happens to a collection by the user, the folders and the app's
\* end together.
CONSTANT MaxActs

VARIABLE part

planeVars == vars

PlaneRests == Init /\ stored = NONE
ContactRests == ContactInit /\ row = NoRow
TopicRests == TopicInit /\ topicRow = NoTopic /\ private
CacheRests == CacheInit /\ \A k \in Lists : legacy[k] = {}
PayloadRests == PayloadInit /\ shareable

SafetyInit ==
    /\ DmInit /\ CursorInit /\ PublishInit
    /\ part \in {"plane", "contact", "dms", "cursor", "publish", "topic", "cache", "payload"}
    /\ IF part = "plane"   THEN Init        ELSE PlaneRests
    /\ IF part = "contact" THEN ContactInit ELSE ContactRests
    /\ IF part = "topic"   THEN TopicInit   ELSE TopicRests
    /\ IF part = "cache"   THEN CacheInit   ELSE CacheRests
    /\ IF part = "payload" THEN PayloadInit ELSE PayloadRests

othersOfPlane ==
    <<contactVars, dmVars, cursorVars, publishVars, topicVars, cacheVars, payloadVars>>
othersOfContact ==
    <<planeVars, dmVars, cursorVars, publishVars, topicVars, cacheVars, payloadVars>>
othersOfDms ==
    <<planeVars, contactVars, cursorVars, publishVars, topicVars, cacheVars, payloadVars>>
othersOfCursor ==
    <<planeVars, contactVars, dmVars, publishVars, topicVars, cacheVars, payloadVars>>
othersOfPublish ==
    <<planeVars, contactVars, dmVars, cursorVars, topicVars, cacheVars, payloadVars>>
othersOfTopic ==
    <<planeVars, contactVars, dmVars, cursorVars, publishVars, cacheVars, payloadVars>>
othersOfCache ==
    <<planeVars, contactVars, dmVars, cursorVars, publishVars, topicVars, payloadVars>>
othersOfPayload ==
    <<planeVars, contactVars, dmVars, cursorVars, publishVars, topicVars, cacheVars>>

FewActs == clicks' + edits' + exits' <= MaxActs

SafetyNext ==
    /\ UNCHANGED part
    /\ \/ part = "plane"   /\ Next        /\ UNCHANGED othersOfPlane
       \/ part = "contact" /\ ContactNext /\ UNCHANGED othersOfContact
       \/ part = "dms"     /\ DmNext      /\ UNCHANGED othersOfDms
       \/ part = "cursor"  /\ CursorNext  /\ UNCHANGED othersOfCursor
       \/ part = "publish" /\ PublishNext /\ FewActs /\ UNCHANGED othersOfPublish
       \/ part = "topic"   /\ TopicNext   /\ UNCHANGED othersOfTopic
       \/ part = "cache"   /\ CacheNext   /\ UNCHANGED othersOfCache
       \/ part = "payload" /\ PayloadNext /\ UNCHANGED othersOfPayload

SafetySpec == SafetyInit /\ [][SafetyNext]_<<part, planeVars, othersOfPlane>>

\* Each part keeps its types.
PartsTypeOK ==
    /\ part = "plane" => TypeOK
    /\ part = "contact" => ContactTypeOK
    /\ part = "dms" => DmTypeOK
    /\ part = "cursor" => CursorTypeOK
    /\ part = "publish" => PublishTypeOK
    /\ part = "topic" => TopicTypeOK
    /\ part = "cache" => CacheTypeOK
    /\ part = "payload" => PayloadTypeOK

=============================================================================
