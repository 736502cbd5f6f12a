---------------------------- MODULE RemoteSettings ----------------------------
(***************************************************************************)
(* Settings that live in Rust and of which a C++ object keeps a copy:      *)
(* those of a RemoteTrackPublication (remote_track_publication.cpp) and    *)
(* the switch of the E2EEManager (e2ee.cpp).                               *)
(*                                                                         *)
(* An application thread calls the setters, each a request and then an     *)
(* assignment; meanwhile Rust subscribes and unsubscribes as it was asked, *)
(* or as the server makes it, and the Room's thread handles the events.    *)
(* The copy decides whether a setter sends anything.                       *)
(***************************************************************************)
EXTENDS Naturals, Sequences

CONSTANTS
  Qualities,         \* the values of VideoQuality, of which "HIGH" is one
  Dimensions,        \* the values of width and height that are asked for, 0 too
  MaxRequests,       \* bound on the requests that are sent
  MaxChanges         \* bound on the changes of the subscription in Rust

ASSUME RemoteSettingsAssumption ==
  /\ "HIGH" \in Qualities
  /\ Dimensions \subseteq Nat \X Nat
  /\ MaxRequests \in Nat /\ MaxChanges \in Nat

InvalidQuality == "INVALID"

VARIABLES
  pub_kind, pub_simulcasted,          \* of the publication, for good
  subscribed_, track_, enabled_,      \* the copy: is it subscribed, is there a track, is it enabled?
  video_preference, video_quality, requested,
  e2ee_enabled,                       \* E2EEManager::enabled_
  setter,                             \* the call that has sent its request and not assigned yet
  rust_settings,                      \* Rust: the settings, and the wanted subscription
  rust_subscribed_now,                \* Rust: the actual subscription
  subscription_events,                \* Rust: the events that have not been handled
  requests, changes,                  \* counters
  intent                              \* history: the subscription the application asked for last

pubVars == <<pub_kind, pub_simulcasted>>
copyVars == <<enabled_, video_preference, video_quality, requested, e2ee_enabled>>
rustSubVars == <<rust_subscribed_now, changes>>
settingsVars == <<pubVars, subscribed_, track_, copyVars, setter, rust_settings, rustSubVars, subscription_events,
                  requests, intent>>

NoSetter == [field |-> "none"]

SettingsInit ==
  /\ pub_kind \in {"audio", "video"} /\ pub_simulcasted \in BOOLEAN
  /\ subscribed_ = FALSE /\ track_ = FALSE /\ enabled_ = TRUE
  /\ video_preference = "DEFAULT" /\ video_quality = "HIGH" /\ requested = <<0, 0>>
  /\ e2ee_enabled = TRUE
  /\ setter = NoSetter
  /\ intent \in BOOLEAN     \* the room's auto_subscribe
  /\ rust_settings = [wanted |-> intent, enabled |-> TRUE, preference |-> "DEFAULT", quality |-> "HIGH",
                      dimensions |-> <<0, 0>>, e2ee |-> TRUE]
  /\ rust_subscribed_now = FALSE /\ subscription_events = <<>>
  /\ requests = 0 /\ changes = 0

-----------------------------------------------------------------------------
(* The setters: the checks and the request, and then the assignments *)

\* A request that throws leaves everything as it was; the other ones are applied by Rust.
Send(field, value, settings) ==
  /\ setter = NoSetter /\ requests < MaxRequests
  /\ requests' = requests + 1
  /\ rust_settings' = settings
  /\ setter' = [field |-> field, value |-> value]
  /\ UNCHANGED <<pubVars, subscribed_, track_, copyVars, rustSubVars, subscription_events>>

SetSubscribed(b) == Send("subscribed", b, [rust_settings EXCEPT !.wanted = b]) /\ intent' = b

MayUpdate == subscribed_ /\ track_

SetEnabled(b) ==
  /\ MayUpdate
  /\ enabled_ # b
  /\ Send("enabled", b, [rust_settings EXCEPT !.enabled = b])
  /\ UNCHANGED intent

SetVideoQuality(q) ==
  /\ pub_kind = "video" /\ pub_simulcasted /\ MayUpdate
  /\ ~(video_preference = "QUALITY" /\ video_quality = q)
  /\ q # InvalidQuality
  /\ Send("quality", q, [rust_settings EXCEPT !.preference = "QUALITY", !.quality = q])
  /\ UNCHANGED intent

SetVideoDimensions(d) ==
  /\ pub_kind = "video" /\ d[1] > 0 /\ d[2] > 0 /\ MayUpdate
  /\ ~(video_preference = "DIMENSIONS" /\ requested = d)
  /\ Send("dimensions", d, [rust_settings EXCEPT !.preference = "DIMENSIONS", !.dimensions = d])
  /\ UNCHANGED intent

E2eeSetEnabled(b) == Send("e2ee", b, [rust_settings EXCEPT !.e2ee = b]) /\ UNCHANGED intent

Assign(field) == setter # NoSetter /\ setter.field = field /\ setter' = NoSetter
AssignRest == UNCHANGED <<pubVars, track_, rust_settings, rustSubVars, subscription_events, requests, intent>>

AssignSubscribed ==
  Assign("subscribed") /\ subscribed_' = setter.value /\ UNCHANGED copyVars /\ AssignRest

AssignEnabled ==
  /\ Assign("enabled") /\ enabled_' = setter.value
  /\ UNCHANGED <<subscribed_, video_preference, video_quality, requested, e2ee_enabled>> /\ AssignRest

AssignQuality ==
  /\ Assign("quality") /\ video_preference' = "QUALITY" /\ video_quality' = setter.value
  /\ UNCHANGED <<subscribed_, enabled_, requested, e2ee_enabled>> /\ AssignRest

AssignDimensions ==
  /\ Assign("dimensions")
  /\ requested' = setter.value /\ video_preference' = "DIMENSIONS" /\ video_quality' = "HIGH"
  /\ UNCHANGED <<subscribed_, enabled_, e2ee_enabled>> /\ AssignRest

AssignE2ee ==
  /\ Assign("e2ee") /\ e2ee_enabled' = setter.value
  /\ UNCHANGED <<subscribed_, enabled_, video_preference, video_quality, requested>> /\ AssignRest

-----------------------------------------------------------------------------
(* Rust (external) follows what is wanted, or is made to unsubscribe; the Room handles the events *)

RustChanges ==
  /\ changes < MaxChanges
  /\ rust_settings.wanted \/ rust_subscribed_now
  /\ changes' = changes + 1
  /\ rust_subscribed_now' = ~rust_subscribed_now
  /\ subscription_events' = Append(subscription_events, ~rust_subscribed_now)
  /\ UNCHANGED <<pubVars, subscribed_, track_, copyVars, setter, rust_settings, requests, intent>>

\* Mutant of UpdateSubscriptionState: the event asks Rust for what it reports.
UpdateByRequest(b) == subscribed_' = b /\ rust_settings' = [rust_settings EXCEPT !.wanted = b]

UpdateSubscriptionState(b) == subscribed_' = b /\ UNCHANGED rust_settings

OnSubscriptionEvent ==
  /\ subscription_events # <<>>
  /\ subscription_events' = Tail(subscription_events)
  /\ track_' = Head(subscription_events)
  /\ UpdateSubscriptionState(Head(subscription_events))
  /\ UNCHANGED <<pubVars, copyVars, setter, rustSubVars, requests, intent>>

SettingsNext ==
  \/ \E b \in BOOLEAN : SetSubscribed(b) \/ SetEnabled(b) \/ E2eeSetEnabled(b)
  \/ \E q \in Qualities \cup {InvalidQuality} : SetVideoQuality(q)
  \/ \E d \in Dimensions : SetVideoDimensions(d)
  \/ AssignSubscribed \/ AssignEnabled \/ AssignQuality \/ AssignDimensions \/ AssignE2ee
  \/ RustChanges \/ OnSubscriptionEvent

SettingsSpec == SettingsInit /\ [][SettingsNext]_settingsVars

-----------------------------------------------------------------------------
(* Properties *)

\* Between two calls the copy agrees with Rust, so that a setter that sends nothing because nothing
\* would change is right; with dimensions preferred the quality reads as HIGH.
SettingsMirrorRust ==
  setter = NoSetter =>
    /\ enabled_ = rust_settings.enabled /\ e2ee_enabled = rust_settings.e2ee
    /\ video_preference = rust_settings.preference
    /\ video_preference = "QUALITY" => video_quality = rust_settings.quality
    /\ video_preference = "DIMENSIONS" => requested = rust_settings.dimensions /\ video_quality = "HIGH"

\* "Sending a subscription request from an event would let an old completion overwrite newer
\* application intent": Rust wants what the application asked for last; and when Rust has got there
\* and its events have been handled, subscribed() and track() say so, however the late assignment
\* of setSubscribed() and the events were interleaved.
SubscriptionSettles ==
  /\ rust_settings.wanted = intent
  /\ subscription_events = <<>> => track_ = rust_subscribed_now
  /\ setter = NoSetter /\ subscription_events = <<>> /\ rust_subscribed_now = intent =>
       subscribed_ = rust_subscribed_now
\* The object and Rust agree on the settings and on the subscription.
SettingsAgree == SettingsMirrorRust /\ SubscriptionSettles
=============================================================================
