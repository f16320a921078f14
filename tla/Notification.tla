----------------------------- MODULE Notification -----------------------------
(***************************************************************************)
(* What a notification says: GetObjectMetaData of                          *)
(* src/pkg/utils/k8sutil.go, New and Message of src/pkg/event/event.go and *)
(* the message each handler of src/pkg/handlers makes of an event.         *)
(*                                                                         *)
(* An object is a record with its Go type and its meta data.  Wording,     *)
(* icons, and the fields that only pass through (component, host, uid,     *)
(* annotations of a rollout) are left out; of a text what it names is      *)
(* kept, of a colour the status it stands for.                             *)
(***************************************************************************)

\* The zero meta data; 0 is a time before any other.
NoMeta == [namespace |-> "", name |-> "", created |-> 0]

\* A missing object has the type "nil".
MetaTypes ==
    {"apps_v1.Deployment", "api_v1.ReplicationController",
     "apps_v1.ReplicaSet", "apps_v1.DaemonSet", "api_v1.Service",
     "api_v1.Pod", "batch_v1.Job", "api_v1.PersistentVolume",
     "api_v1.Namespace", "api_v1.Secret", "ext_v1beta1.Ingress",
     "api_v1.Event"}
GetObjectMetaData(obj) ==
    IF obj.type \in MetaTypes THEN obj.meta ELSE NoMeta

\* The type switch of New knows other versions of some types.
Kinds ==
    {<<"ext_v1beta1.DaemonSet", "daemon set">>,
     <<"apps_v1beta1.Deployment", "deployment">>,
     <<"batch_v1.Job", "job">>, <<"api_v1.Namespace", "namespace">>,
     <<"ext_v1beta1.Ingress", "ingress">>,
     <<"api_v1.PersistentVolume", "persistent volume">>,
     <<"api_v1.Pod", "pod">>,
     <<"api_v1.ReplicationController", "replication controller">>,
     <<"ext_v1beta1.ReplicaSet", "replica set">>,
     <<"api_v1.Service", "service">>, <<"api_v1.Secret", "secret">>,
     <<"api_v1.ConfigMap", "configmap">>, <<"api_v1.Event", "event">>}
KindOf(type) ==
    IF \E k \in Kinds : k[1] = type
    THEN (CHOOSE k \in Kinds : k[1] = type)[2] ELSE ""

Status == [created |-> "Normal", deleted |-> "Danger", updated |-> "Warning"]

Event(kind, namespace, name, reason, action) ==
    [kind |-> kind, namespace |-> namespace, name |-> name,
     reason |-> reason, status |-> Status[action]]

\* The event of a rollout stands for the rollout, with a reason of its own.
IsRollout(obj) == obj.type = "api_v1.Event" /\ obj.involved.kind = "Rollout"
GetRolloutEventMetadata(obj, action) ==
    Event(obj.involved.kind, obj.involved.namespace, obj.involved.name,
          obj.reason, action)

\* The event of an action on an object; an event.Event stands for itself.
New(obj, action) ==
    LET meta == GetObjectMetaData(obj) IN
    IF obj.type = "event.Event"
    THEN Event(obj.kind, obj.namespace, obj.name, action, action)
    ELSE IF IsRollout(obj) THEN GetRolloutEventMetadata(obj, action)
    ELSE Event(KindOf(obj.type), meta.namespace, meta.name, action, action)

\* The text names the namespace, except that of a namespace.  No event has the
\* kind "Event", whose case would return the message of a rollout.
Message(e) ==
    [kind |-> e.kind, name |-> e.name, reason |-> e.reason,
     namespace |-> IF e.kind = "namespace" THEN "" ELSE e.namespace]

\* What the handlers send: a text and a colour, or the event itself.
PrepareSlackAttachment(e) == [text |-> Message(e), colour |-> e.status]
PrepareHipchatNotification(e) == [text |-> Message(e), colour |-> e.status]
PrepareMattermostMessage(e) == [text |-> Message(e), colour |-> e.status]
PrepareFlockMessage(e) == [text |-> Message(e), colour |-> e.status]
PrepareWebhookMessage(e) == [text |-> e, colour |-> e.status]

NotifySlack(obj, action) == PrepareSlackAttachment(New(obj, action))
NotifyHipchat(obj, action) == PrepareHipchatNotification(New(obj, action))
NotifyMattermost(obj, action) == PrepareMattermostMessage(New(obj, action))
NotifyFlock(obj, action) == PrepareFlockMessage(New(obj, action))
NotifyWebhook(obj, action) == PrepareWebhookMessage(New(obj, action))

Notify(handler, obj, action) ==
    CASE handler = "slack" -> NotifySlack(obj, action)
      [] handler = "hipchat" -> NotifyHipchat(obj, action)
      [] handler = "mattermost" -> NotifyMattermost(obj, action)
      [] handler = "flock" -> NotifyFlock(obj, action)
      [] handler = "webhook" -> NotifyWebhook(obj, action)
=============================================================================
