------------------------------- MODULE MCEvents -------------------------------
(***************************************************************************)
(* EventPath for TLC.                                                      *)
(***************************************************************************)
EXTENDS EventPath

\* Two agents with keys of their own, one without a key.
MCConfig ==
  [a \in {"a1", "a2", "a3"} |->
     CASE a = "a1" -> [key |-> "k1", form |-> "base64"]
       [] a = "a2" -> [key |-> "k2", form |-> "raw"]
       [] a = "a3" -> [key |-> "none", form |-> "none"]]

CertOf(dns, cn, org) == [dns |-> dns, cn |-> cn, org |-> org]

\* Named by its DNS name, by its common name, without organization; of a tenant
\* that is no path component, of an agent without a key or unknown, of nobody.
MCCerts ==
  {CertOf("a1", "a2", "t1"), CertOf(None, "a2", "t1"), CertOf("a1", None, None),
   CertOf("a1", None, ".."), CertOf("a3", None, "t1"), CertOf("a4", None, "t1"),
   CertOf(None, None, "t1")}

\* Beside a result with an int, arguments with one number, one text or neither;
\* and a result with a number and a text.  The numbers: an int with more digits
\* than a double, 10^21, and floats on both sides of where the notations change.
IntOf(digits, exp) == [int |-> TRUE, digits |-> digits, exp |-> exp]
FloatOf(digits, exp) == [int |-> FALSE, digits |-> digits, exp |-> exp]
Object(number, text) == [number |-> number, text |-> text]

MCTools ==
  LET one == IntOf("whole", 0)
      numbers == {IntOf("long", 18), IntOf("whole", 21),
                  FloatOf("whole", 0), FloatOf("whole", 21),
                  FloatOf("fraction", -4), FloatOf("fraction", -5), FloatOf("fraction", -10)}
  IN  {[arguments |-> o, result |-> Object(one, None)] :
         o \in {Object(n, None) : n \in numbers}
                \cup {Object(None, "separator"), Object(None, None)}}
      \cup {[arguments |-> Object(None, "plain"), result |-> Object(one, "nonascii")]}

\* A pattern for a key that may be a number, a greedy one for a password, and in the
\* config one that does not compile and one for a name.
MCPattern(hits, greedy, escaped, valid) ==
  [hits |-> hits, greedy |-> greedy, escaped |-> escaped, valid |-> valid]
MCDefaultPatterns ==
  <<MCPattern({"key", "digits"}, FALSE, "missed", TRUE),
    MCPattern({"password"}, TRUE, "found", TRUE)>>
MCCustomPatterns ==
  <<MCPattern({"plain"}, FALSE, "found", FALSE), MCPattern({"name"}, FALSE, "taken", TRUE)>>
=============================================================================
