--------------------------- MODULE DomainBlocklist ---------------------------
(***************************************************************************)
(* The blocklist of a filter snapshot (DomainBlocklist): a cuckoo filter   *)
(* that may say yes too often, in front of a tree of labels that is exact. *)
(* Thread A builds one from the rules of an update and may be cancelled    *)
(* between any two rules.                                                  *)
(*                                                                         *)
(* A name is the sequence of its canonical labels.  What the hash functions*)
(* make of it is chosen once per behaviour: `hash' gives the index and the *)
(* fingerprint of each name.  The pseudo-random slots that kick_out picks  *)
(* are arbitrary.                                                          *)
(***************************************************************************)
EXTENDS Integers, Sequences, FiniteSets, SequencesExt, Bitwise

CONSTANTS
    Names,             \* names asked for, closed under suffixes
    Hashes,            \* what the names may hash to: [Names -> [index, fp]]
    Delta,             \* splitmix64 of each fingerprint
    RuleLists,         \* what an update may hold: rules, each of a kind and with a name
    FPS_PER_BUCKET, MAX_KICKS,
    MaxBuckets,        \* stands for numeric_limits<size_t>::max()
    max_size           \* of the vector of buckets

VARIABLE build   \* the state of DomainBlocklist::build

Root == << >>

-----------------------------------------------------------------------------
(* CuckooFilter *)

Vacant == 0   \* Fingerprint::none; calc_fp never returns it

\* a power of two, at least 4
RECURSIVE BitCeil(_, _)
BitCeil(requested, power) == IF power >= requested THEN power ELSE BitCeil(requested, 2 * power)

normalize_bucket_count(requested) == BitCeil(requested, 4)

\* the constructor throws std::length_error
TooManyBuckets(requested) ==
    \/ requested > (MaxBuckets + 1) \div 2
    \/ normalize_bucket_count(requested) > max_size
    \/ normalize_bucket_count(requested) > MaxBuckets \div FPS_PER_BUCKET

NewFilter(requested) ==
    [buckets |-> [i \in 0 .. normalize_bucket_count(requested) - 1 |->
                     [k \in 1 .. FPS_PER_BUCKET |-> Vacant]],
     size |-> 0]

bucket_count(filter) == Cardinality(DOMAIN filter.buckets)

load_limit(slots) == (slots * 95) \div 100

\* mutant: the way to the alternate bucket is not the way back
AlternateByAddition(filter, index, fp) ==
    LET delta == Delta[fp] % bucket_count(filter)
    IN  (index + (IF delta = 0 THEN 1 ELSE delta)) % bucket_count(filter)

alternate_index(filter, index, fp) ==
    LET delta == Delta[fp] % bucket_count(filter)
    IN  index ^^ (IF delta = 0 THEN 1 ELSE delta)

find_fp(filter, index, fp) ==
    \/ Contains(filter.buckets[index], fp)
    \/ Contains(filter.buckets[alternate_index(filter, index, fp)], fp)

contains(filter, hash) == find_fp(filter, hash.index % bucket_count(filter), hash.fp)

HasRoom(filter, index) == Contains(filter.buckets[index], Vacant)

\* find_empty_slot and the assignment to it
Store(filter, index, fp) ==
    LET slot == SelectInSeq(filter.buckets[index], LAMBDA f : f = Vacant)
    IN  [filter EXCEPT !.buckets[index][slot] = fp, !.size = @ + 1]

\* mutant: the history of the kicks is undone from its beginning
UndoForward(filter, history) ==
    FoldLeft(LAMBDA f, kick : [f EXCEPT !.buckets[kick.index][kick.slot] = kick.previous],
             filter, history)

Undo(filter, history) ==
    FoldRight(LAMBDA kick, f : [f EXCEPT !.buckets[kick.index][kick.slot] = kick.previous],
              history, filter)

\* the outcomes of kick_out, one for each choice of slots
RECURSIVE KickOn(_, _, _, _)
KickOn(filter, index, fp, history) ==
    IF Len(history) = MAX_KICKS THEN {[ok |-> FALSE, filter |-> Undo(filter, history)]}
    ELSE UNION {
        LET victim == filter.buckets[index][slot]
            kicked == [filter EXCEPT !.buckets[index][slot] = fp]
            next   == alternate_index(filter, index, victim)
        IN  IF HasRoom(kicked, next) THEN {[ok |-> TRUE, filter |-> Store(kicked, next, victim)]}
            ELSE KickOn(kicked, next, victim,
                        Append(history, [index |-> index, slot |-> slot, previous |-> victim]))
        : slot \in 1 .. FPS_PER_BUCKET}

kick_out(filter, index, fp) == KickOn(filter, index, fp, << >>)

\* the outcomes of CuckooFilter::insert
insert(filter, hash) ==
    LET index1 == hash.index % bucket_count(filter)
        index2 == alternate_index(filter, index1, hash.fp)
    IN  IF find_fp(filter, index1, hash.fp) THEN {[ok |-> TRUE, filter |-> filter]}
        ELSE IF filter.size >= load_limit(bucket_count(filter) * FPS_PER_BUCKET)
             THEN {[ok |-> FALSE, filter |-> filter]}
        ELSE IF HasRoom(filter, index1) THEN {[ok |-> TRUE, filter |-> Store(filter, index1, hash.fp)]}
        ELSE IF HasRoom(filter, index2) THEN {[ok |-> TRUE, filter |-> Store(filter, index2, hash.fp)]}
        ELSE kick_out(filter, index1, hash.fp) \cup kick_out(filter, index2, hash.fp)

-----------------------------------------------------------------------------
(* RadixTree: a node is the path of labels from the top-level domain down *)

EmptyTree == [nodes |-> {Root}, ends |-> {}]

InsertRule(tree, name) ==
    [nodes |-> tree.nodes \cup Prefixes(Reverse(name)), ends |-> tree.ends \cup {Reverse(name)}]

\* the first node on the way down that ends a rule decides
search(tree, name) ==
    LET path == Reverse(name)
    IN  \E depth \in 1 .. Len(path) :
            /\ SubSeq(path, 1, depth) \in tree.ends
            /\ \A d \in 1 .. depth : SubSeq(path, 1, d) \in tree.nodes

-----------------------------------------------------------------------------
(* DomainBlocklist *)

initial_bucket_count(count) == IF count < 4 THEN 4 ELSE count \div 3 + 1

matches(filter, tree, hash, name) ==
    /\ \E first \in 1 .. Len(name) : contains(filter, hash[SubSeq(name, first, Len(name))])
    /\ search(tree, name)

BuildInit ==
    \E hash \in Hashes, rules \in RuleLists :
        build = [phase |-> "rules", hash |-> hash, rules |-> rules, canonical |-> << >>, next |-> 1,
                 requested |-> 0, filter |-> NewFilter(4), tree |-> EmptyTree, error |-> "none"]

Fails(code) == build' = [build EXCEPT !.phase = "failed", !.error = code]

\* stop_token: looked at before every rule, every candidate and every insertion
Cancel ==
    /\ \/ build.phase = "rules"
       \/ build.phase \in {"keys", "tree"} /\ build.next <= Len(build.canonical)
       \/ build.phase = "full" /\ build.requested <= MaxBuckets \div 2
    /\ Fails("Cancelled")

\* a rule is normalised, and kept unless it is already there
CheckRule ==
    /\ build.phase = "rules" /\ build.next <= Len(build.rules)
    /\ LET rule == build.rules[build.next]
       IN  CASE rule.kind = "invalid" -> Fails("InvalidDomain")
             [] rule.kind = "wildcard" -> Fails("WildcardNotSupported")
             [] rule.kind = "plain" /\ rule.name = Root -> Fails("RootRuleNotAllowed")
             [] OTHER -> build' = [build EXCEPT !.next = @ + 1,
                             !.canonical = IF Contains(@, rule.name) THEN @
                                           ELSE Append(@, rule.name)]

\* a filter that cannot be had ends build with the constructor's exception
Candidate(requested) ==
    IF TooManyBuckets(requested) THEN Fails("length_error")
    ELSE build' = [build EXCEPT !.phase = "keys", !.next = 1, !.requested = requested,
                                !.filter = NewFilter(requested)]

FirstCandidate ==
    /\ build.phase = "rules" /\ build.next > Len(build.rules)
    /\ Candidate(initial_bucket_count(Len(build.canonical)))

InsertKey ==
    /\ build.phase = "keys" /\ build.next <= Len(build.canonical)
    /\ \E outcome \in insert(build.filter, build.hash[build.canonical[build.next]]) :
           build' = [build EXCEPT !.filter = outcome.filter,
                                  !.phase = IF outcome.ok THEN "keys" ELSE "full",
                                  !.next = IF outcome.ok THEN @ + 1 ELSE @]

\* Some key found no place: all of it again with twice the buckets.  The vector
\* reaches its limit before bucket_count does.
Grow ==
    /\ build.phase = "full"
    /\ IF build.requested > MaxBuckets \div 2 THEN Fails("CapacityOverflow")
       ELSE Candidate(build.requested * 2)

StartTree ==
    /\ build.phase = "keys" /\ build.next > Len(build.canonical)
    /\ build' = [build EXCEPT !.phase = "tree", !.next = 1]

InsertIntoTree ==
    /\ build.phase = "tree" /\ build.next <= Len(build.canonical)
    /\ build' = [build EXCEPT !.tree = InsertRule(@, build.canonical[build.next]), !.next = @ + 1]

FinishBuild ==
    /\ build.phase = "tree" /\ build.next > Len(build.canonical)
    /\ build' = [build EXCEPT !.phase = "built"]

BuildNext ==
    \/ Cancel \/ CheckRule \/ FirstCandidate \/ InsertKey \/ Grow
    \/ StartTree \/ InsertIntoTree \/ FinishBuild

-----------------------------------------------------------------------------
(* Properties *)

\* A finished blocklist blocks a name exactly when one of the rules is the name or
\* one of its parents: the prefilter loses no rule, however keys were kicked
\* about and however often the filter had to grow.
BlocklistIsExact ==
    build.phase = "built" =>
        \A name \in Names :
            matches(build.filter, build.tree, build.hash, name)
                <=> \E i \in DOMAIN build.rules : IsSuffix(build.rules[i].name, name)

\* CuckooFilter.h: "A false result provides the strong guarantee: all existing
\* fingerprints ... remain unchanged", after a chain of kicks that failed, too.
InsertIsAllOrNothing ==
    [][build.phase = "keys" /\ build'.phase = "full" => build'.filter = build.filter]_build

=============================================================================
