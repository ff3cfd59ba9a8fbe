----------------------------- MODULE MqttTopic -----------------------------
(***************************************************************************)
(* mqtt_topic_is_matched: the scan that decides whether an incoming topic  *)
(* name belongs to a subscription, one action per turn of its loop,        *)
(* against the definition of a match by topic levels.                      *)
(***************************************************************************)
EXTENDS Naturals, Sequences, FiniteSets

CONSTANTS Letters,    \* the characters of topic levels
          MaxFilter,  \* bound on the length of topic filters
          MaxName     \* bound on the length of topic names

ASSUME LettersAssumption == Letters \cap {"/", "+", "#"} = {}
ASSUME LengthsAssumption == MaxFilter \in Nat /\ MaxName \in Nat

VARIABLES filter, name,   \* the strings compared, chosen at the start
          curf, curn,     \* the two cursors, as indices from 1
          scanning        \* whether the loop is still running

vars == <<filter, name, curf, curn, scanning>>

Strings(chars, max) == UNION {[1..n -> chars] : n \in 1..max}

AtEnd(s, i) == i > Len(s)

-----------------------------------------------------------------------------
(* Topics by levels.                                                       *)

\* The levels of s lie between its cuts: its separators, and its two ends.
Cuts(s) == {0, Len(s) + 1} \cup {i \in 1..Len(s) : s[i] = "/"}
Cut(s, n) == CHOOSE i \in Cuts(s) : Cardinality({k \in Cuts(s) : k < i}) = n
Depth(s) == Cardinality(Cuts(s)) - 1
Nth(s, n) == SubSeq(s, Cut(s, n - 1) + 1, Cut(s, n) - 1)

\* A well-formed filter: a wildcard fills its level, and # is the last one.
ValidFilter(s) ==
    \A n \in 1..Depth(s) :
        LET t == Nth(s, n)
            has(ch) == \E i \in 1..Len(t) : t[i] = ch
        IN  /\ has("+") => t = <<"+">>
            /\ has("#") => t = <<"#">> /\ n = Depth(s)

\* The MQTT definition: + stands for one level, # for the parent and all below.
Matches(f, s) ==
    LET many == Nth(f, Depth(f)) = <<"#">>
        fixed == IF many THEN Depth(f) - 1 ELSE Depth(f)
    IN  /\ IF many THEN Depth(s) >= fixed ELSE Depth(s) = fixed
        /\ \A n \in 1..fixed : Nth(f, n) = <<"+">> \/ Nth(f, n) = Nth(s, n)

\* The names the scan is meant for: no empty level, and not the bare parent of #.
Ordinary(f, s) ==
    /\ \A n \in 1..Depth(s) : Nth(s, n) # <<>>
    /\ Nth(f, Depth(f)) = <<"#">> => Depth(s) >= Depth(f)

-----------------------------------------------------------------------------
(* mqtt_topic_is_matched.                                                  *)

Init ==
    /\ filter \in {f \in Strings(Letters \cup {"/", "+", "#"}, MaxFilter) : ValidFilter(f)}
    /\ name \in Strings(Letters \cup {"/"}, MaxName)
    /\ curf = 1 /\ curn = 1 /\ scanning = TRUE

\* A character neither equal nor covered by a wildcard ends the scan, and so
\* does a separator of the name under anything but a separator.
Mutant_Mismatch == filter[curf] \notin {"+", "#", name[curn]}   \* + and # may cross a separator
Mismatch ==
    \/ name[curn] = "/" /\ filter[curf] # "/"
    \/ filter[curf] \notin {"+", "#", name[curn]}

\* The last character of the name before the next separator.
Mutant_SkipLevel == curn                  \* + takes a single character
Mutant_SkipPast == curn + 1               \* + takes the character after too
SkipLevel ==
    CHOOSE k \in curn..Len(name) :
        /\ \A i \in curn + 1 .. k : name[i] # "/"
        /\ k = Len(name) \/ name[k + 1] = "/"

Continue == ~AtEnd(filter, curf) /\ ~AtEnd(name, curn) /\ ~Mismatch

scan_break ==
    /\ scanning
    /\ ~Continue
    /\ scanning' = FALSE
    /\ UNCHANGED <<filter, name, curf, curn>>

scan_char ==
    /\ scanning
    /\ Continue
    /\ curf' = curf + 1
    /\ curn' = 1 + CASE filter[curf] = "+" -> SkipLevel
                     [] filter[curf] = "#" -> Len(name)
                     [] OTHER              -> curn
    /\ UNCHANGED <<filter, name, scanning>>

\* The value returned: both cursors have reached the end.
mqtt_topic_is_matched == AtEnd(name, curn) /\ AtEnd(filter, curf)

Done == ~scanning /\ UNCHANGED vars

Next == scan_break \/ scan_char \/ Done

Spec == Init /\ [][Next]_vars

-----------------------------------------------------------------------------
(* Properties.                                                             *)

\* The cursors never pass the end of their strings by more than the one
\* position the C code compares with.
TypeOK ==
    /\ curf \in 1 .. Len(filter) + 1
    /\ curn \in 1 .. Len(name) + 1
    /\ scanning \in BOOLEAN

\* For ordinary names the scan of mqtt_topic_is_matched gives the MQTT answer:
\* no message reaches a handler it is not for, and none is withheld.
MatchAgrees ==
    ~scanning /\ Ordinary(filter, name) => (mqtt_topic_is_matched <=> Matches(filter, name))

\* For every name, a match found by the scan is a match: a message is never
\* given to a handler whose filter does not cover its topic.
MatchSound == ~scanning /\ mqtt_topic_is_matched => Matches(filter, name)

=============================================================================
