----------------------------- MODULE EventCodec ------------------------------
(***************************************************************************)
(* The life of one event across the two languages: the Python SDK signs    *)
(* and encodes it (sdk/agent_transponder/events.py, hmac.py, client.py),   *)
(* the ingester identifies the sender by its certificate, decodes the      *)
(* event, verifies the signature over its own canonical JSON, and stores   *)
(* it (cmd/ingestion/pipeline.go, analysis.go, internal/types,             *)
(* internal/identity); the forwarder encodes it again for the engine.      *)
(*                                                                         *)
(* The signature covers the canonical JSON, so it depends on how each      *)
(* language writes a value.  Data is abstracted to what they write         *)
(* differently: a text is plain ASCII, has characters outside ASCII, has   *)
(* < > &, or has U+2028; a JSON object has a number, a text, both or       *)
(* neither.  Canonical JSON is the set of its fields: <<name, value as     *)
(* written>>.                                                              *)
(***************************************************************************)
EXTENDS Integers, FiniteSets

CONSTANTS
  Types, Severities,               \* those the ingester knows
  SdkTypes, SdkSeverities,         \* those recorded, perhaps "unspecified"
  Texts, Tools, Durations, Zones,  \* what the application records
  Certs,                           \* [dns, cn, org], each a name or None
  Config,                          \* agents of the config: name -> [key, form]
  BadTenants,                      \* not one literal path component
  Agents, Tenants,                 \* what the SDK is configured with
  MaxFaults,                       \* bound on fields changed after signing
  None

AnyText == {"plain", "nonascii", "markup", "separator"}

(***************************************************************************)
(* A number is told by its digits and the power of ten of the first one,   *)
(* and Python knows whether it is an int.  Digits end before the point, go *)
(* past it, or are more than the double nearest to the number has; a       *)
(* double has nothing past the point from 10^16 on.                        *)
(***************************************************************************)
Numbers ==
  {n \in [int : BOOLEAN, digits : {"whole", "fraction", "long"}, exp : Int] :
     IF n.digits = "fraction" THEN ~n.int /\ n.exp < 16
                              ELSE n.exp >= 0 /\ (n.digits = "long" => n.int)}

\* The digits of a double are the fewest that tell it from the others.
Doubles == [digits : {"whole", "fraction", "nearest"}, exp : Int]

Objects == [number : Numbers \cup {None}, text : AnyText \cup {None}]
HeldObjects == [number : Doubles \cup {None}, text : AnyText \cup {None}]

\* What the constants are, assumed by the module that gives them values.
CodecAssumption ==
  /\ "unspecified" \notin Types \cup Severities
  /\ SdkTypes \subseteq Types \cup {"unspecified"}
  /\ SdkSeverities \subseteq Severities \cup {"unspecified"}
  /\ "" \notin SdkTypes \cup SdkSeverities
  /\ Texts \subseteq AnyText
  /\ Tools \subseteq [arguments : Objects, result : Objects]
  /\ 0 \in Durations /\ MaxFaults \in Nat
  /\ None \notin {"identity_error", "invalid_hmac", "schema_violation", "accepted"}
  /\ None \notin AnyText \cup Numbers \cup Doubles
  /\ None \notin [{"arguments", "result"} -> Objects \cup HeldObjects]

VARIABLES
  sdk,        \* the Event of the SDK when it was signed
  queued,     \* the same object when it is sent
  key,        \* the key it is configured with
  cert,       \* the certificate of its connection
  wire,       \* the message, None before it is sent
  verdict,    \* the answer
  stored,     \* the types.Event written, None when there is none
  analysed,   \* the message the engine was sent
  faults

vars == <<sdk, queued, key, cert, wire, verdict, stored, analysed, faults>>

-----------------------------------------------------------------------------
(***************************************************************************)
(* The SDK.                                                                *)
(***************************************************************************)
\* An event of type "tool_call" has arguments and a result, others a text only.
SdkEvents ==
  {e \in [agent : Agents, tenant : Tenants, type : SdkTypes, severity : SdkSeverities,
          text : Texts, tool : Tools \cup {None}, duration : Durations, zone : Zones] :
     e.tool # None <=> e.type = "tool_call"}

Field(name, value) == {<<name, value>>}
FieldUnless(absent, name, value) == IF absent THEN {} ELSE Field(name, value)

\* json.dumps escapes everything outside ASCII and nothing else.
PyText(t) == <<t, IF t \in {"nonascii", "separator"} THEN "escaped" ELSE "raw">>

\* An int is written with its digits; a float with a point from 0.0001 up to
\* 10^16, else with an exponent of at least two digits.
PyNotation(n) ==
  CASE n.int -> "fixed"
    [] ~n.int /\ n.exp \in -4..15 -> IF n.digits = "fraction" THEN "fixed" ELSE "point"
    [] ~n.int /\ n.exp \in -9..-5 -> "padded"
    [] OTHER -> "exponent"
PyNumber(n) == <<n.digits, n.exp, PyNotation(n)>>

PyObject(o) ==
  FieldUnless(o.number = None, "number", PyNumber(o.number))
    \cup FieldUnless(o.text = None, "text", PyText(o.text))

\* None and {} are left out.
IsEmpty(o) == o.number = None /\ o.text = None
PyTool(tc) == UNION {FieldUnless(IsEmpty(tc[f]), f, PyObject(tc[f])) : f \in DOMAIN tc}

PyCanonical(e) ==
  UNION {
    Field("agent_id", e.agent), Field("tenant_id", e.tenant),
    Field("type", e.type), Field("severity", e.severity),
    Field("timestamp", e.zone), Field("received_at", "zero"), Field("content", PyText(e.text)),
    FieldUnless(e.tool = None, "tool_call", IF e.tool = None THEN {} ELSE PyTool(e.tool)),
    FieldUnless(e.duration = 0, "duration", e.duration)}

Signature(k, canonical) == <<k, canonical>>

\* The messages of arguments and result hold doubles.
Double(n) == [digits |-> IF n.digits = "long" THEN "nearest" ELSE n.digits, exp |-> n.exp]
Held(o) == [o EXCEPT !.number = IF @ = None THEN None ELSE Double(@)]
HeldTool(tc) == IF tc = None THEN None ELSE [f \in DOMAIN tc |-> Held(tc[f])]

\* The message has no duration and its timestamp no zone; arguments and result
\* are there even when they are empty.
event_to_proto(e, hmac) ==
  [agent |-> e.agent, tenant |-> e.tenant, type |-> e.type, severity |-> e.severity,
   text |-> e.text, tool |-> HeldTool(e.tool), duration |-> 0, hmac |-> hmac]

-----------------------------------------------------------------------------
(***************************************************************************)
(* The ingester's side of the message.                                     *)
(***************************************************************************)
eventTypeToProto(t) == IF t \in Types THEN t ELSE "unspecified"
protoToEventType(n) == IF n \in Types THEN n ELSE ""
severityToProto(s) == IF s \in Severities THEN s ELSE "unspecified"
protoToSeverity(n) == IF n \in Severities THEN n ELSE ""

\* A double is written with the digits that tell it from the others, and read
\* as a double again.
structToJSON(o) == Held(o)
jsonToStruct(o) == Held(o)

protoToEvent(p) ==
  [agent |-> p.agent, tenant |-> p.tenant,
   type |-> protoToEventType(p.type), severity |-> protoToSeverity(p.severity),
   text |-> p.text, duration |-> p.duration, hmac |-> p.hmac, received |-> "zero",
   tool |-> IF p.tool = None THEN None ELSE [f \in DOMAIN p.tool |-> structToJSON(p.tool[f])]]

eventToProto(e) ==
  [agent |-> e.agent, tenant |-> e.tenant,
   type |-> eventTypeToProto(e.type), severity |-> severityToProto(e.severity),
   text |-> e.text, duration |-> e.duration, hmac |-> e.hmac,
   tool |-> IF e.tool = None THEN None ELSE [f \in DOMAIN e.tool |-> jsonToStruct(e.tool[f])]]

\* encoding/json escapes < > & and U+2028, and nothing else.
GoText(t) == <<t, IF t \in {"markup", "separator"} THEN "escaped" ELSE "raw">>

\* Every number is a float64: digits alone from 0.000001 up to 10^21, else with
\* an exponent without leading zero.
GoNumber(d) == <<d.digits, d.exp, IF d.exp \in -6..20 THEN "fixed" ELSE "exponent">>

GoObject(o) ==
  FieldUnless(o.number = None, "number", GoNumber(o.number))
    \cup FieldUnless(o.text = None, "text", GoText(o.text))

GoTool(tc) == UNION {Field(f, GoObject(tc[f])) : f \in DOMAIN tc}

GoCanonical(e) ==
  UNION {
    Field("agent_id", e.agent), Field("tenant_id", e.tenant),
    Field("type", e.type), Field("severity", e.severity),
    Field("timestamp", "utc"), Field("received_at", e.received), Field("content", GoText(e.text)),
    FieldUnless(e.tool = None, "tool_call", IF e.tool = None THEN {} ELSE GoTool(e.tool)),
    FieldUnless(e.duration = 0, "duration", e.duration)}

VerifyHMAC(e, k) == e.hmac = Signature(k, GoCanonical(e))

-----------------------------------------------------------------------------
(***************************************************************************)
(* Identity.                                                               *)
(***************************************************************************)
\* An agent without a key in the config has none; a key that is not base64 is
\* taken as it is.
hmacKeys == [a \in {a \in DOMAIN Config : Config[a].form # "none"} |-> Config[a].key]

AgentID(c) == IF c.dns # None THEN c.dns ELSE c.cn
TenantID(c) == IF c.org # None THEN c.org ELSE "_default"

ValidateTenantID(t) == t \notin BadTenants

\* The certificate names an agent with a key and a tenant that is safe.
Identified(c) ==
  /\ AgentID(c) # None
  /\ ValidateTenantID(TenantID(c))
  /\ AgentID(c) \in DOMAIN hmacKeys

-----------------------------------------------------------------------------
(***************************************************************************)
(* One event is recorded, sent, perhaps changed on its way, ingested, and  *)
(* forwarded.  (Rate limits and redaction are in modules of their own.)    *)
(***************************************************************************)
Keys == {Config[a].key : a \in DOMAIN Config}

Init ==
  /\ sdk \in SdkEvents /\ queued = sdk /\ key \in Keys /\ cert \in Certs
  /\ wire = None /\ verdict = None /\ stored = None /\ analysed = None /\ faults = 0

\* The application changes what it passed: the queue holds the event itself,
\* and the signature is there already.
Change ==
  /\ wire = None /\ faults < MaxFaults /\ faults' = faults + 1
  /\ \/ \E t \in Texts \ {queued.text} : queued' = [queued EXCEPT !.text = t]
     \/ /\ queued.tool # None
        /\ \E tc \in Tools \ {queued.tool} : queued' = [queued EXCEPT !.tool = tc]
  /\ UNCHANGED <<sdk, key, cert, wire, verdict, stored, analysed>>

\* The sender thread encodes the event it has taken from the queue.
Send ==
  /\ wire = None
  /\ wire' = event_to_proto(queued, Signature(key, PyCanonical(sdk)))
  /\ UNCHANGED <<sdk, queued, key, cert, verdict, stored, analysed, faults>>

Values(f) ==
  CASE f = "agent" -> Agents [] f = "tenant" -> Tenants
    [] f = "type" -> SdkTypes [] f = "severity" -> SdkSeverities
    [] f = "text" -> Texts [] f = "tool" -> {HeldTool(tc) : tc \in Tools \cup {None}}
    [] f = "duration" -> Durations

\* A field of the message arrives with another value.
Damage ==
  /\ wire # None /\ verdict = None /\ faults < MaxFaults /\ faults' = faults + 1
  /\ \E f \in DOMAIN wire \ {"hmac"} : \E v \in Values(f) \ {wire[f]} :
       wire' = [wire EXCEPT ![f] = v]
  /\ UNCHANGED <<sdk, queued, key, cert, verdict, stored, analysed>>

validateEvent(e) == e.type \in Types

\* Faulty variant: the key is that of the agent the event names.
SigningKeyClaimed(e) == IF e.agent \in DOMAIN hmacKeys THEN hmacKeys[e.agent] ELSE None

\* The key is that of the certificate's agent.
SigningKey(e) == hmacKeys[AgentID(cert)]

\* Faulty variant: the identity is taken from the certificate first.
VerdictOverridden(e) ==
  IF ~Identified(cert) THEN "identity_error"
  ELSE IF ~VerifyHMAC([e EXCEPT !.agent = AgentID(cert), !.tenant = TenantID(cert)], SigningKey(e))
    THEN "invalid_hmac"
  ELSE IF ~validateEvent(e) THEN "schema_violation"
  ELSE "accepted"

\* The signature is verified before the identity is overridden.
Verdict(e) ==
  IF ~Identified(cert) THEN "identity_error"
  ELSE IF ~VerifyHMAC(e, SigningKey(e)) THEN "invalid_hmac"
  ELSE IF ~validateEvent(e) THEN "schema_violation"
  ELSE "accepted"

IngestEvent ==
  /\ wire # None /\ verdict = None
  /\ LET e == protoToEvent(wire) IN
       /\ verdict' = Verdict(e)
       /\ stored' = IF verdict' # "accepted" THEN None
            ELSE [e EXCEPT !.agent = AgentID(cert), !.tenant = TenantID(cert), !.received = "now"]
  /\ UNCHANGED <<sdk, queued, key, cert, wire, analysed, faults>>

Forward ==
  /\ stored # None /\ analysed = None /\ analysed' = eventToProto(stored)
  /\ UNCHANGED <<sdk, queued, key, cert, wire, verdict, stored, faults>>

Done ==
  /\ verdict # None /\ (stored # None => analysed # None)
  /\ UNCHANGED vars

Next == Change \/ Send \/ Damage \/ IngestEvent \/ Forward \/ Done

Spec == Init /\ [][Next]_vars

-----------------------------------------------------------------------------
TypeOK ==
  /\ sdk \in SdkEvents /\ queued \in SdkEvents
  /\ key \in Keys /\ cert \in Certs /\ faults \in 0..MaxFaults
  /\ verdict \in {None, "identity_error", "invalid_hmac", "schema_violation", "accepted"}
  /\ stored # None <=> verdict = "accepted"
  /\ stored # None => /\ stored.type \in Types /\ stored.severity \in Severities
                      /\ stored.received = "now"

\* What the event says, apart from who sent it; of a number, the double.
Content(e) == <<e.type, e.severity, e.text, e.duration, HeldTool(e.tool)>>

\* What is stored says what was signed, with the key of the agent the
\* certificate names, and is stored under that agent and its tenant, whatever
\* happened to the event between its signature and its verification and whatever
\* it claimed (__init__.py:386-402, pipeline.go:124-159).
AcceptedIsSigned ==
  verdict = "accepted" =>
    /\ key = Config[AgentID(cert)].key
    /\ Content(stored) = Content(sdk)
    /\ stored.agent = AgentID(cert) /\ stored.tenant = TenantID(cert)

\* The data both languages write alike: texts without < > & whose characters are
\* ASCII or U+2028; ints below 10^21 whose digits a double has; floats with a
\* fraction from 0.0001 on, smaller than 10^-9, or 10^21 and more; no empty object,
\* no duration, and a timestamp in UTC.
AlikeText(t) == t \in {"plain", "separator"}
AlikeNumber(n) ==
  IF n.int THEN n.digits # "long" /\ n.exp < 21
  ELSE (n.digits = "fraction" /\ n.exp >= -4) \/ n.exp < -9 \/ n.exp >= 21
AlikeObject(o) ==
  /\ ~IsEmpty(o)
  /\ o.number # None => AlikeNumber(o.number)
  /\ o.text # None => AlikeText(o.text)
Portable(e) ==
  /\ e.type # "unspecified" /\ e.severity # "unspecified" /\ e.duration = 0
  /\ AlikeText(e.text) /\ e.zone = "utc"
  /\ e.tool # None => \A f \in DOMAIN e.tool : AlikeObject(e.tool[f])

\* An undamaged event is accepted when its agent is known, it was signed with the
\* agent's key, and both languages write its data alike; else it is refused,
\* whoever it says it is from (hmac.py:20-29, event.go:174-210, tls.go:66-112).
AcceptedIffPortable ==
  (faults = 0 /\ verdict # None) =>
    (verdict = "accepted" <=>
       Identified(cert) /\ key = Config[AgentID(cert)].key /\ Portable(sdk))

\* The engine is sent what is stored, the time of receipt apart
\* (analysis.go:271-437).
EngineSeesStored ==
  analysed # None => protoToEvent(analysed) = [stored EXCEPT !.received = "zero"]

\* events.py:296-298: "so that HMAC-SHA256 signatures computed on both sides are
\* identical": an event that arrives as it was sent, signed with the agent's key,
\* verifies.
HonestVerifies ==
  (faults = 0 /\ verdict # None /\ Identified(cert) /\ key = Config[AgentID(cert)].key)
    => verdict # "invalid_hmac"
=============================================================================
