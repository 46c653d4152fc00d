-------------------------------- MODULE Scopes --------------------------------
(***************************************************************************)
(* The scopes of a device: the list built from a GetScopes reply           *)
(* (src/src/devicemgmt/onvif_device_scopes.c), and the two functions that  *)
(* give what scopes say of a key: extract_scope of that list, and          *)
(* extract_scope of a match that discovery found                           *)
(* (src/src/discovery/onvif_probematches.c).                               *)
(*                                                                         *)
(* A scope is onvif://www.onvif.org/<key>/<value>, with a value that is    *)
(* decoded by urldecode, or urldecode2; any other scope says nothing.      *)
(* Values are sequences of bytes here, because the decoding is the point;  *)
(* the rest of a scope is a record.                                        *)
(***************************************************************************)
EXTENDS Naturals, Sequences, FiniteSets, SequencesExt

CONSTANTS
    Keys,       \* the keys
    Replies     \* the replies: sequences of items

Percent == 37
Plus == 43
Space == 32
Text == Seq(1..255)

(* kind is null for an item without text, other for one without the prefix  *)
(* or without a slash after its key.                                        *)
Item == [kind: {"null", "other", "scope"}, key: Keys, value: Text]

VARIABLES
    reply,          \* the GetScopes reply
    next,           \* its item that the constructor comes to
    scopes,         \* priv->scopes
    fault,          \* the fault of the object
    state,          \* of the object: building, built, disposed
    asked,          \* the key last asked for, <<>> for none
    device_answer,  \* what OnvifScopes says of it: <<>> for NULL, or <<text>>
    match_answer    \* what a match with the same scopes says of it

vars == <<reply, next, scopes, fault, state, asked, device_answer, match_answer>>

TypeOK ==
    /\ reply \in Replies /\ next \in 1..(Len(reply) + 1)
    /\ \A n \in DOMAIN scopes : scopes[n] \in Item /\ scopes[n].kind # "null"
    /\ fault \in {"NONE", "UNEXPECTED"}
    /\ state \in {"building", "built", "disposed"}
    /\ asked \in {<<>>} \cup {<<k>> : k \in Keys}
    /\ Len(device_answer) <= 1
    /\ match_answer \in Seq(0..255)

Init ==
    /\ reply \in Replies /\ next = 1
    /\ scopes = <<>> /\ fault = "NONE" /\ state = "building"
    /\ asked = <<>> /\ device_answer = <<>> /\ match_answer = <<>>

--------------------------------------------------------------------------------
(* urldecode and urldecode2 are the same loop. *)

Upper == 65..70
Lower == 97..102
Digits == 48..57

(* isxdigit *)
IsHex(c) == c \in Upper \cup Lower \cup Digits

(* The value of a digit, by the comparisons of lines 114-125 *)
HexValue(c) ==
    LET u == IF c >= 97 THEN c - 32 ELSE c
    IN  IF u >= 65 THEN u - 55 ELSE u - 48

(* Mutated form: the two characters after a percent sign are not tested. *)
IsEscapeAny(s, i) == s[i] = Percent /\ i + 2 <= Len(s)

IsEscape(s, i) ==
    s[i] = Percent /\ i + 2 <= Len(s) /\ IsHex(s[i + 1]) /\ IsHex(s[i + 2])

(* The loop from the byte at place i *)
urldecode(s) ==
    LET from[i \in 1..(Len(s) + 1)] ==
            IF i > Len(s) THEN <<>>
            ELSE IF IsEscape(s, i)
            THEN <<16 * HexValue(s[i + 1]) + HexValue(s[i + 2])>> \o from[i + 3]
            ELSE <<IF s[i] = Plus THEN Space ELSE s[i]>> \o from[i + 1]
    IN  from[1]

(* Mutated form: a text with its length. *)
CStringWhole(s) == s

(* strlen, strcpy and strcat see a string up to its first NUL. *)
CString(s) ==
    IF \E i \in DOMAIN s : s[i] = 0
    THEN SubSeq(s, 1, (CHOOSE i \in DOMAIN s :
                          s[i] = 0 /\ \A j \in 1..(i - 1) : s[j] # 0) - 1)
    ELSE s

--------------------------------------------------------------------------------
(* Mutated form: the items before the NULL one are kept. *)
ResetNothing == scopes

(* OnvifScopes__reset *)
Reset == <<>>

(* One turn of the constructor's loop: an item without text is a fault.     *)
AddScope ==
    /\ state = "building" /\ next <= Len(reply)
    /\ IF reply[next].kind = "null"
       THEN /\ scopes' = Reset
            /\ fault' = "UNEXPECTED" /\ state' = "built" /\ UNCHANGED next
       ELSE /\ scopes' = Append(scopes, reply[next])
            /\ next' = next + 1 /\ UNCHANGED <<fault, state>>
    /\ UNCHANGED <<reply, asked, device_answer, match_answer>>

Built ==
    /\ state = "building" /\ next > Len(reply) /\ state' = "built"
    /\ UNCHANGED <<reply, next, scopes, fault, asked, device_answer, match_answer>>

(* lines 148-158: the scope begins with the prefix and the key, and a slash *)
Says(item, k) == item.kind = "scope" /\ item.key = k

(* output, the decoded value of a scope *)
Output(item) == CString(urldecode(item.value))

(* OnvifScopes__extract_scope: NULL, then the first value, then a space and *)
(* the next ones                                                            *)
ExtractDevice(s, k) ==
    LET ret_val[a \in 0..Len(s)] ==
            IF a = 0 THEN <<>>
            ELSE IF ~Says(s[a], k) THEN ret_val[a - 1]
            ELSE IF ret_val[a - 1] = <<>> THEN <<Output(s[a])>>
            ELSE <<ret_val[a - 1][1] \o <<Space>> \o Output(s[a])>>
    IN  ret_val[Len(s)]

(* Mutated form: a space before each value but the first. *)
ExtractMatchSpaced(s, k) ==
    LET ret_val[a \in 0..Len(s)] ==
            IF a = 0 THEN <<>>
            ELSE IF ~Says(s[a], k) THEN ret_val[a - 1]
            ELSE ret_val[a - 1] \o <<Space>> \o Output(s[a])
    IN  ret_val[Len(s)]

(* ProbMatch__extract_scope: an empty string, to which a value is copied    *)
(* while it is empty                                                        *)
ExtractMatch(s, k) ==
    LET ret_val[a \in 0..Len(s)] ==
            IF a = 0 THEN <<>>
            ELSE IF ~Says(s[a], k) THEN ret_val[a - 1]
            ELSE IF ret_val[a - 1] = <<>> THEN Output(s[a])
            ELSE ret_val[a - 1] \o <<Space>> \o Output(s[a])
    IN  ret_val[Len(s)]

Extract(k) ==
    /\ state = "built"
    /\ asked' = <<k>>
    /\ device_answer' = ExtractDevice(scopes, k)
    /\ match_answer' = ExtractMatch(scopes, k)
    /\ UNCHANGED <<reply, next, scopes, fault, state>>

Dispose ==
    /\ state = "built" /\ state' = "disposed"
    /\ scopes' = Reset
    /\ UNCHANGED <<reply, next, fault, asked, device_answer, match_answer>>

Next == AddScope \/ Built \/ (\E k \in Keys : Extract(k)) \/ Dispose

Spec == Init /\ [][Next]_vars

--------------------------------------------------------------------------------
(* Properties. *)

(* The list is the whole reply or, when an item of it has no text, empty    *)
(* with a fault: a caller never takes a part of the scopes for all of them. *)
WholeOrFault ==
    state = "built" =>
        IF \E n \in DOMAIN reply : reply[n].kind = "null"
        THEN scopes = <<>> /\ fault = "UNEXPECTED"
        ELSE scopes = reply /\ fault = "NONE"

(* What percent-decoding is, without a loop: escapes cannot overlap, so     *)
(* each place of the text stands for itself unless it is one of the three   *)
(* of an escape.                                                            *)
Starts(s, i) ==
    /\ i \in 1..(Len(s) - 2) /\ s[i] = Percent
    /\ IsHex(s[i + 1]) /\ IsHex(s[i + 2])

Nibble(c) ==
    CHOOSE v \in 0..15 : IF v <= 9 THEN c = 48 + v ELSE c \in {55 + v, 87 + v}

Place(s, i) ==
    IF Starts(s, i) THEN <<16 * Nibble(s[i + 1]) + Nibble(s[i + 2])>>
    ELSE IF Starts(s, i - 1) \/ Starts(s, i - 2) THEN <<>>
    ELSE IF s[i] = Plus THEN <<Space>> ELSE <<s[i]>>

Decoded(s) == FlattenSeq([i \in 1..Len(s) |-> Place(s, i)])

(* urldecode decodes each value as percent-decoding says, a cut or          *)
(* malformed escape included, and fits the buffer of the value's length     *)
(* that extract_scope gives it.                                             *)
DecodesEveryValue ==
    \A n \in DOMAIN scopes :
        LET v == scopes[n].value
        IN  urldecode(v) = Decoded(v) /\ Len(urldecode(v)) <= Len(v)

(* The two functions say the same of the same scopes, but for NULL, and for *)
(* the spaces that OnvifScopes alone puts after values that are empty.      *)
SameAnswers ==
    asked # <<>> =>
        IF device_answer = <<>> THEN match_answer = <<>>
        ELSE \E n \in 0..Len(reply) :
                /\ device_answer[1] = [i \in 1..n |-> Space] \o match_answer
                /\ n > 0 => \E i \in DOMAIN reply :
                                /\ Says(reply[i], asked[1]) /\ Output(reply[i]) = <<>>
                                /\ \A j \in 1..(i - 1) : ~Says(reply[j], asked[1])

(* A C string as the specification of decoding sees it: what is before the  *)
(* first NUL.                                                               *)
Cut(d) == SubSeq(d, 1, Cardinality({m \in DOMAIN d : \A i \in 1..m : d[i] # 0}))

(* What item n of a reply adds to the answer for a key *)
Piece(r, k, n) ==
    IF ~Says(r[n], k) THEN <<>>
    ELSE (IF \E m \in 1..(n - 1) : Says(r[m], k) THEN <<Space>> ELSE <<>>)
             \o Cut(Decoded(r[n].value))

(* The answer of OnvifScopes is every value of the key, in the order of the *)
(* reply, a space between them, and NULL when there is none or the reply    *)
(* was a fault.  A value that decodes to a NUL is cut there, and nothing    *)
(* else is lost.                                                            *)
JoinsEveryValue ==
    asked # <<>> =>
        LET k == asked[1]
        IN  IF fault = "NONE" /\ \E n \in DOMAIN reply : Says(reply[n], k)
            THEN device_answer =
                    <<FlattenSeq([n \in DOMAIN reply |-> Piece(reply, k, n)])>>
            ELSE device_answer = <<>>

(* The list and its answers are whole: no item, value or byte of a value is *)
(* lost but behind a NUL, or all of them are with a fault.                  *)
AnswersWhole == TypeOK /\ WholeOrFault /\ DecodesEveryValue /\ JoinsEveryValue
================================================================================
