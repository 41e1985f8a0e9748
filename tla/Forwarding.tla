------------------------------ MODULE Forwarding ------------------------------
(***************************************************************************)
(* Forwarding rules: which of the patterns of a domain decides where mail    *)
(* for an address goes, while accounts are deleted and registered again.     *)
(*                                                                         *)
(* A pattern and the local part of an address are sequences of characters.   *)
(* Storage executes one request at a time; auth, which owns the accounts,    *)
(* acts at any time, also between storage's questions to it.  The rules are  *)
(* those of one domain: the others of an installation never match its         *)
(* addresses.  An address asked for with a queued job keeps the route pinned   *)
(* to the job, which is modelled in StorageQueue.                            *)
(***************************************************************************)
EXTENDS Naturals, Sequences, FiniteSets, SequencesExt

CONSTANTS
    Letters,        \* the characters of addresses
    PatternLetters, \* bound: those used in patterns
    MaxLength,      \* the longest local part and pattern (64)
    MaxRules,       \* the most rules kept (1000)
    Mailboxes,      \* local parts that may be accounts
    ForwardTargets  \* bound: those that rules lead to

Wildcards == {"*", "?"}

ASSUME ForwardingAssumption ==
    /\ MaxLength \in Nat /\ MaxRules \in Nat
    /\ PatternLetters \subseteq Letters /\ Letters \cap Wildcards = {}
    /\ Mailboxes \subseteq Seq(Letters) /\ ForwardTargets \subseteq Mailboxes

VARIABLES
    fwRules,        \* forwarding_rules, in the order of their ids
    fwAccount,      \* what auth keeps of an address: users and account_deletions
    fwStep,         \* how far storage is with resolve_recipient
    fwAnswer        \* the answer of resolve_recipient, until it is given

fwVars == <<fwRules, fwAccount, fwStep, fwAnswer>>

(* An account that was deleted is to be cleaned up, then to be released for registration. *)
AddressStates == {"exists", "deleting", "cleaned", "free"}
Exist == {u \in Mailboxes : fwAccount[u] = "exists"}

Strings(characters) == UNION {[1..n -> characters] : n \in 1..MaxLength}
NoRule == [pattern |-> <<>>, destination |-> <<>>]
NoAnswer == [recipient |-> <<>>, inbox |-> FALSE, destination |-> <<>>, rule |-> NoRule]
Rules == [pattern : Strings(PatternLetters \cup Wildcards), destination : Mailboxes]

ForwardingTypeOK ==
    /\ fwRules \in Seq(Rules) /\ Len(fwRules) <= MaxRules
    /\ fwAccount \in [Mailboxes -> AddressStates]
    /\ fwStep \in {"idle", "asking", "answered"}
    /\ fwAnswer \in [recipient : Strings(Letters) \cup {<<>>}, inbox : BOOLEAN,
                     destination : Mailboxes \cup {<<>>}, rule : Rules \cup {NoRule}]

ForwardingInit ==
    /\ fwRules = <<>> /\ fwAccount = [u \in Mailboxes |-> "exists"]
    /\ fwStep = "idle" /\ fwAnswer = NoAnswer

-----------------------------------------------------------------------------
(* Patterns *)

(* Repeated stars are stored as one. *)
forwarding_pattern(input) ==
    LET Repeats(stored, ch) == ch = "*" /\ stored # <<>> /\ stored[Len(stored)] = "*"
        kept[k \in 0..Len(input)] ==
            IF k = 0 THEN <<>>
            ELSE IF Repeats(kept[k - 1], input[k]) THEN kept[k - 1] ELSE Append(kept[k - 1], input[k])
    IN kept[Len(input)]

(* Mutant: a star stands for one character or more. *)
StarNeedsOne(previous, ch, value) ==
    LET next[i \in 0..Len(value)] ==
            i > 0 /\ (IF ch = "*" THEN previous[i - 1] \/ next[i - 1]
                      ELSE previous[i - 1] /\ (ch = "?" \/ ch = value[i]))
    IN next

(* previous[i]: the pattern so far matches the first i characters of value. *)
NextRow(previous, ch, value) ==
    LET next[i \in 0..Len(value)] ==
            IF ch = "*" THEN (previous[i] \/ (i > 0 /\ next[i - 1]))
            ELSE i > 0 /\ previous[i - 1] /\ (ch = "?" \/ ch = value[i])
    IN next

forwarding_matches(pattern, value) ==
    LET row[k \in 0..Len(pattern)] ==
            IF k = 0 THEN [i \in 0..Len(value) |-> i = 0] ELSE NextRow(row[k - 1], pattern[k], value)
    IN  {Len(pattern), Len(value)} \subseteq 1..MaxLength /\ row[Len(pattern)][Len(value)]

Count(pattern, characters) == Cardinality({k \in DOMAIN pattern : pattern[k] \in characters})
forwarding_specificity(pattern) ==
    <<Count(pattern, Letters), Count(pattern, {"*"}), Count(pattern, {"?"})>>

(* More letters, then fewer stars, then fewer single wildcards. *)
Outranks(rank, best) ==
    \/ rank[1] > best[1]
    \/ (rank[1] = best[1] /\ rank[2] < best[2])
    \/ (rank[1] = best[1] /\ rank[2] = best[2] /\ rank[3] < best[3])

(* The first of the best rules in the order of their ids. *)
Better(rule, best) ==
    best = NoRule \/ Outranks(forwarding_specificity(rule.pattern), forwarding_specificity(best.pattern))
Selected(recipient) ==
    LET best[k \in 0..Len(fwRules)] ==
            IF k = 0 THEN NoRule
            ELSE IF forwarding_matches(fwRules[k].pattern, recipient) /\ Better(fwRules[k], best[k - 1])
                 THEN fwRules[k] ELSE best[k - 1]
    IN best[Len(fwRules)]

Exact(rule) == rule # NoRule /\ Count(rule.pattern, Wildcards) = 0

-----------------------------------------------------------------------------
(* Storage's operations on the rules *)

(* A destination is an account, an address is not forwarded to itself, a pattern has one rule.  An *)
(* account deleted after storage asked for it is cleaned up only when the rule is there.             *)
CreateRule ==
    \E input \in Strings(PatternLetters \cup Wildcards), destination \in Exist \cap ForwardTargets :
      LET pattern == forwarding_pattern(input) IN
      /\ pattern # destination
      /\ \A k \in DOMAIN fwRules : fwRules[k].pattern # pattern
      /\ Len(fwRules) < MaxRules
      /\ fwRules' = Append(fwRules, [pattern |-> pattern, destination |-> destination])
      /\ UNCHANGED <<fwAccount, fwStep, fwAnswer>>

DeleteRule ==
    \E k \in DOMAIN fwRules :
      /\ fwRules' = RemoveAt(fwRules, k)
      /\ UNCHANGED <<fwAccount, fwStep, fwAnswer>>

(* The rules that lead to the address are removed, not those that match it. *)
RulesWithout(account) ==
    LET kept[k \in 0..Len(fwRules)] ==
            IF k = 0 THEN <<>>
            ELSE IF fwRules[k].destination = account THEN kept[k - 1] ELSE Append(kept[k - 1], fwRules[k])
    IN kept[Len(fwRules)]

(* delete_mailbox is refused while there is an account.  A call may be repeated, or arrive late. *)
DeleteMailbox ==
    \E account \in Mailboxes \ Exist :
      /\ fwRules' = RulesWithout(account)
      /\ fwAccount' = [fwAccount EXCEPT ![account] = IF @ = "deleting" THEN "cleaned" ELSE @]
      /\ UNCHANGED <<fwStep, fwAnswer>>

(* The rules are read, and auth is asked for the recipient unless it has an exact rule: that comes *)
(* before the inbox, the inbox before the wildcards.                                              *)
resolve_recipient ==
    \E recipient \in Strings(Letters) :
      LET rule == Selected(recipient)
          own == ~Exact(rule) /\ recipient \in Exist
      IN  /\ fwAnswer' = [recipient |-> recipient, inbox |-> recipient \in Exist,
                          destination |-> IF own THEN recipient ELSE <<>>, rule |-> IF own THEN NoRule ELSE rule]
          /\ fwStep' = IF own \/ rule = NoRule THEN "answered" ELSE "asking"
          /\ UNCHANGED <<fwRules, fwAccount>>

(* Then auth is asked for the destination: one that is gone is no destination, and no other rule is tried. *)
AskDestination ==
    /\ fwStep = "asking" /\ fwStep' = "answered"
    /\ LET destination == fwAnswer.rule.destination
       IN  fwAnswer' = [fwAnswer EXCEPT !.destination = IF destination \in Exist THEN destination ELSE <<>>]
    /\ UNCHANGED <<fwRules, fwAccount>>

(* The answer is given, or auth gave none and the request fails. *)
AnswerGiven ==
    /\ fwStep # "idle" /\ fwStep' = "idle" /\ fwAnswer' = NoAnswer
    /\ UNCHANGED <<fwRules, fwAccount>>

-----------------------------------------------------------------------------
(* Auth's operations on the accounts *)

Turns(account, from, to) ==
    /\ fwAccount[account] = from
    /\ fwAccount' = [fwAccount EXCEPT ![account] = to]
    /\ UNCHANGED <<fwRules, fwStep, fwAnswer>>

(* user_delete, then user_delete_finish once storage has cleaned up; until then the address is not  *)
(* registered again.                                                                              *)
DisableAccount == \E u \in Mailboxes : Turns(u, "exists", "deleting")
FinishDeletion == \E u \in Mailboxes : Turns(u, "cleaned", "free")
CreateAccount == \E u \in Mailboxes : Turns(u, "free", "exists")

ForwardingNext ==
    \/ fwStep = "idle" /\ (CreateRule \/ DeleteRule \/ DeleteMailbox \/ resolve_recipient)
    \/ AskDestination \/ AnswerGiven
    \/ DisableAccount \/ FinishDeletion \/ CreateAccount
ForwardingSpec == ForwardingInit /\ [][ForwardingNext]_fwVars

-----------------------------------------------------------------------------
(* What a pattern means: the value can be cut into one piece for each of its characters. *)
Matches(pattern, value) ==
    \E cut \in [0..Len(pattern) -> 0..Len(value)] :
      /\ cut[0] = 0 /\ cut[Len(pattern)] = Len(value)
      /\ \A k \in 1..Len(pattern) :
           IF pattern[k] = "*" THEN cut[k - 1] <= cut[k]
           ELSE /\ cut[k] = cut[k - 1] + 1
                /\ (pattern[k] = "?" \/ pattern[k] = value[cut[k]])

Applicable == {k \in DOMAIN fwRules : Matches(fwRules[k].pattern, fwAnswer.recipient)}
Verbatim == {k \in Applicable : fwRules[k].pattern = fwAnswer.recipient}

(* An address with a rule of its own gets that rule; without one its own inbox comes before every  *)
(* wildcard; only other addresses follow a wildcard, and then one that no applicable rule surpasses: *)
(* with more letters, or as many and fewer stars, or else fewer single wildcards.                   *)
RuleIsChosen ==
    CASE Verbatim # {} -> \A k \in Verbatim : fwAnswer.rule = fwRules[k]
      [] Verbatim = {} /\ (fwAnswer.inbox \/ Applicable = {}) -> fwAnswer.rule = NoRule
      [] OTHER ->
           /\ \E k \in Applicable : fwAnswer.rule = fwRules[k]
           /\ \A k \in Applicable :
                ~Outranks(forwarding_specificity(fwRules[k].pattern), forwarding_specificity(fwAnswer.rule.pattern))

(* An address whose mailbox is still somebody's: storage has not cleaned it up. *)
Owned(account) == fwAccount[account] \in {"exists", "deleting"}

(* The mail goes where the rule leads, or to the own inbox, and that is still somebody's; it is      *)
(* refused only where there is neither, or while the account that the rule leads to is being deleted. *)
DestinationIsOwned ==
    IF fwAnswer.rule = NoRule
    THEN IF fwAnswer.inbox THEN fwAnswer.destination = fwAnswer.recipient /\ Owned(fwAnswer.recipient)
         ELSE fwAnswer.destination = <<>>
    ELSE LET destination == fwAnswer.rule.destination IN
         \/ fwAnswer.destination = destination /\ Owned(destination)
         \/ fwAnswer.destination = <<>> /\ fwAccount[destination] = "deleting"

(* While accounts are deleted, cleaned up and registered again at any moment, also between the      *)
(* questions of one resolve_recipient: mail is routed by the rule that counts and to its owner, and   *)
(* no rule outlives the cleanup of the account it leads to, so that the next owner of an address       *)
(* inherits none (resolve_recipient, forwarding_matches, forwarding_specificity, delete_mailbox).      *)
RoutesFollowTheRules ==
    /\ \A k \in DOMAIN fwRules : Owned(fwRules[k].destination)
    /\ fwStep = "answered" => RuleIsChosen /\ DestinationIsOwned
=============================================================================
