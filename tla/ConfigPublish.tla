--------------------------- MODULE ConfigPublish ---------------------------
(***************************************************************************)
(* Reading, publishing and removing one configuration from several clients *)
(* (src/api/config.rs, src/config/mod.rs, worker.rs), with the config      *)
(* filters and the encryption they apply (src/api/plugin/config_filter.rs, *)
(* encryption.rs).  The cache entry of a listener is kept as ConfigListen  *)
(* shows; here it only matters that it is filled, and late.                *)
(*                                                                         *)
(* An application reads the content, adds a mark of its own and publishes, *)
(* until its mark is in.  A content is the set of its marks under the keys *)
(* it is encrypted with; its md5 tells exactly that apart.                 *)
(***************************************************************************)
EXTENDS Naturals, SequencesExt, FiniteSetsExt

CONSTANTS
    Clients,
    Algorithms,   \* what the data id names: an algorithm, or NoAlgorithm
    Filters,      \* the config filters of every client, each the sequence of its plugins
    Listening,    \* clients with a listener, and so with a cache entry
    Preloaded,    \* those whose entry was loaded from disk
    Kinds,        \* how the application of each client publishes
    MaxMarks,     \* bound: marks of a client
    MaxLost       \* bound: requests whose connection is lost

NoAlgorithm == "none"
AllKinds == {"plain", "cas", "beta", "param", "remove"}

ASSUME PublishAssumption ==
    /\ Preloaded \subseteq Listening /\ Listening \subseteq Clients
    /\ Kinds \in [Clients -> SUBSET AllKinds] /\ MaxMarks \in Nat /\ MaxLost \in Nat
    /\ Filters \in Seq(Seq([name : STRING, algorithm : STRING \ {NoAlgorithm}]))

VARIABLES
    algorithm,  \* the algorithm in the data id
    released,   \* the server: the released config, or Absent
    beta,       \* the server: the beta config, or Absent
    cache,      \* the entry of each client
    app,        \* the application of each client
    late,       \* requests given up by their client and not yet by the network
    lost

vars == <<algorithm, released, beta, cache, app, late, lost>>

-----------------------------------------------------------------------------
(* Contents.                                                               *)

Marks == Clients \X (1..MaxMarks)

\* The key of a publication: the plugin and, generated afresh, the mark it is
\* for.
NoKey == << >>
IsKey(k) == k = NoKey \/ (Len(k) = 2 /\ k[2] \in Marks)

Content(layers, marks) == [layers |-> layers, marks |-> marks]
IsContent(t) ==
    /\ t.marks \subseteq Marks /\ \A n \in DOMAIN t.layers : IsKey(t.layers[n])

\* What decrypting with a key makes of a content that was not encrypted with it.
Garbage == Content(<<NoKey>>, {})

Stored(t, k) == [there |-> TRUE, content |-> t, key |-> k]
Absent == [there |-> FALSE, content |-> Content(<< >>, {}), key |-> NoKey]

\* The md5 of the stored content, encrypted or not.
NoMd5 == << >>
Md5(s) == <<s.content>>

-----------------------------------------------------------------------------
(* Filters.                                                                *)

\* need_cipher, for the algorithm a of the data id.
NeedCipher(a, p) == p.algorithm = a

\* The loop over the plugins of a filter is left at the first that is needed.
Needed(a, f) == SelectInSeq(f, LAMBDA p : NeedCipher(a, p))

\* ConfigEncryptionFilter::filter for a request: a new key, the content under
\* it, and its key in place of any other.
Encrypt(a, f, m, req) ==
    IF Needed(a, f) = 0 THEN req
    ELSE LET k == <<f[Needed(a, f)].name, m>>
         IN [req EXCEPT !.key = k, !.content.layers = <<k>> \o @]

\* The same for a response that has a key.  Its key stays.
Decrypt(a, f, resp) ==
    IF Needed(a, f) = 0 \/ resp.key = NoKey THEN resp
    ELSE [resp EXCEPT !.content =
            IF @.layers # << >> /\ Head(@.layers) = resp.key
                 /\ resp.key[1] = f[Needed(a, f)].name
            THEN Content(Tail(@.layers), @.marks) ELSE Garbage]

\* publish_config_inner and get_config: all filters in their order, both ways.
FilterRequest(a, m, req) == FoldLeft(LAMBDA r, f : Encrypt(a, f, m, r), req, Filters)
FilterResponse(a, resp) == FoldLeft(LAMBDA r, f : Decrypt(a, f, r), resp, Filters)

-----------------------------------------------------------------------------
(* Requests.                                                               *)

Ips == "ips"
Custom == <<"custom">>     \* a data key among the parameters of the application

\* The entries of g are inserted into f.
Insert(f, g) ==
    [x \in DOMAIN f \cup DOMAIN g |-> IF x \in DOMAIN g THEN g[x] ELSE f[x]]

\* A variant of AdditionMap in which the parameters come last.
AdditionMapLast(params, betaIps, key) ==
    Insert(Insert([encryptedDataKey |-> key], betaIps), params)

\* ConfigPublishRequest: "Customize parameters have low priority", and the data
\* key is always set, to nothing if there is none.
AdditionMap(params, betaIps, key) ==
    Insert(Insert(params, betaIps), [encryptedDataKey |-> key])

\* A variant of CasMd5 that takes the md5 of the entry when it has one.
CasMd5OfEntry(c) ==
    IF cache[c].there THEN Md5(cache[c]) ELSE app[c].md5

\* The md5 to compare with is the application's, that of the content it read.
CasMd5(c) == app[c].md5

\* publish_config, publish_config_cas, publish_config_beta, publish_config_param:
\* what each gives to publish_config_inner.
Cas(c, kind) == IF kind \in {"cas", "param"} THEN CasMd5(c) ELSE NoMd5
BetaIps(kind) == IF kind = "beta" THEN [betaIps |-> Ips] ELSE << >>
Params(kind) == IF kind = "param" THEN [encryptedDataKey |-> Custom] ELSE << >>

PublishRequest(c, kind) ==
    LET m == <<c, app[c].n>>
        req == FilterRequest(algorithm, m, [content |-> Content(app[c].read.layers, app[c].read.marks \cup {m}),
                                 key |-> NoKey])
    IN [kind |-> kind, content |-> req.content, cas |-> Cas(c, kind),
        add |-> AdditionMap(Params(kind), BetaIps(kind), req.key)]

RemoveRequest == [kind |-> "remove", content |-> Absent.content, cas |-> NoMd5, add |-> << >>]

Request(c, kind) == IF kind = "remove" THEN RemoveRequest ELSE PublishRequest(c, kind)

-----------------------------------------------------------------------------
Reading == [pc |-> "reading", n |-> 1, read |-> Absent.content, md5 |-> NoMd5, req |-> RemoveRequest]
Phases == {"reading", "found", "missing", "sent", "finished"}

PublishTypeOK ==
    /\ algorithm \in Algorithms
    /\ \A s \in {released, beta} \cup Range(cache) : IsContent(s.content) /\ IsKey(s.key)
    /\ \A c \in Clients : /\ app[c].pc \in Phases /\ app[c].n \in 1..MaxMarks + 1
                          /\ IsContent(app[c].read)
    /\ lost \in 0..MaxLost /\ Cardinality(late) <= lost

\* The entry as serde brings it back has no filters.
Entry(c, s) == [there |-> s.there, content |-> s.content, key |-> s.key,
                filters |-> c \notin Preloaded]

\* The config may exist: without marks, and not encrypted.
Init ==
    /\ algorithm \in Algorithms
    /\ released \in {Absent, Stored(Absent.content, NoKey)}
    /\ beta = Absent
    /\ cache = [c \in Clients |-> Entry(c, IF c \in Listening THEN released ELSE Absent)]
    /\ app = [c \in Clients |-> Reading]
    /\ late = {} /\ lost = 0

-----------------------------------------------------------------------------
(* Applications.                                                           *)

\* A variant of Snapshot that leaves the filters out.
SnapshotUnfiltered(e) == [content |-> e.content, key |-> e.key]

\* The snapshot of an entry goes through the filters of the entry.
Snapshot(e) ==
    LET resp == [content |-> e.content, key |-> e.key]
    IN IF e.filters THEN FilterResponse(algorithm, resp) ELSE resp

\* get_config: from an entry with a content, or else from the server.  The
\* response keeps the server's md5.  The application goes on when its mark is in.
Get(c) ==
    LET s == IF cache[c].there THEN cache[c] ELSE released
        t == (IF cache[c].there THEN Snapshot(cache[c])
              ELSE FilterResponse(algorithm, [content |-> s.content, key |-> s.key])).content
        n == IF <<c, app[c].n>> \in t.marks THEN app[c].n + 1 ELSE app[c].n
    IN /\ app[c].pc = "reading"
       /\ app' = [app EXCEPT ![c] =
             [Reading EXCEPT !.n = n, !.read = t, !.md5 = IF s.there THEN Md5(s) ELSE NoMd5,
                             !.pc = IF n > MaxMarks THEN "finished"
                                    ELSE IF s.there THEN "found" ELSE "missing"]]
       /\ UNCHANGED <<algorithm, released, beta, cache, late, lost>>

\* An application that finds no config creates it.
Publish(c) ==
    \E kind \in AllKinds :
       /\ \/ app[c].pc = "found" /\ kind \in Kinds[c]
          \/ app[c].pc = "missing" /\ kind = "plain"
       /\ app' = [app EXCEPT ![c] = [Reading EXCEPT !.n = app[c].n, !.pc = "sent",
                                                   !.req = Request(c, kind)]]
       /\ UNCHANGED <<algorithm, released, beta, cache, late, lost>>

\* The server compares, and stores content and data key.  A beta publication
\* leaves the released config alone.
Accepts(req) == req.cas = NoMd5 \/ (released.there /\ Md5(released) = req.cas)
Execute(req) ==
    IF req.kind = "remove" THEN released' = Absent /\ UNCHANGED beta
    ELSE IF ~Accepts(req) THEN UNCHANGED <<released, beta>>
    ELSE IF "betaIps" \in DOMAIN req.add
         THEN beta' = Stored(req.content, req.add.encryptedDataKey) /\ UNCHANGED released
         ELSE released' = Stored(req.content, req.add.encryptedDataKey) /\ UNCHANGED beta

\* The request is executed and answered.  After Ok(true) the application goes on
\* to its next mark, after an error it reads again.
ReadAgain(c, n) ==
    app' = [app EXCEPT ![c] = [Reading EXCEPT !.n = n,
                               !.pc = IF n > MaxMarks THEN "finished" ELSE "reading"]]
Answer(c) ==
    /\ app[c].pc = "sent"
    /\ Execute(app[c].req)
    /\ ReadAgain(c, IF Accepts(app[c].req) THEN app[c].n + 1 ELSE app[c].n)
    /\ UNCHANGED <<algorithm, cache, late, lost>>

\* The connection is lost; the request may have been executed, may still be, or
\* never is.
Lose(c) ==
    /\ app[c].pc = "sent" /\ lost < MaxLost
    /\ lost' = lost + 1 /\ late' = late \cup {app[c].req}
    /\ ReadAgain(c, app[c].n)
    /\ UNCHANGED <<algorithm, released, beta, cache>>

ExecuteLate ==
    /\ \E req \in late : Execute(req) /\ late' = late \ {req}
    /\ UNCHANGED <<algorithm, cache, app, lost>>

-----------------------------------------------------------------------------
\* A variant of Refresh that fills an entry once.
RefreshOnce(c) ==
    /\ c \in Listening /\ released.there /\ ~cache[c].there
    /\ cache' = [cache EXCEPT ![c].there = TRUE, ![c].content = released.content,
                              ![c].key = released.key]
    /\ UNCHANGED <<algorithm, released, beta, app, late, lost>>

\* fill_data, by a push or by the list loop; a config that is gone leaves the
\* entry as it is.
Refresh(c) ==
    /\ c \in Listening /\ released.there
    /\ cache' = [cache EXCEPT ![c].there = TRUE, ![c].content = released.content,
                              ![c].key = released.key]
    /\ UNCHANGED <<algorithm, released, beta, app, late, lost>>

Next ==
    \/ \E c \in Clients : Get(c) \/ Publish(c) \/ Answer(c) \/ Lose(c) \/ Refresh(c)
    \/ ExecuteLate

Spec == Init /\ [][Next]_vars

\* Calls return, applications try again, and the entries of listeners are
\* refreshed.
Fairness ==
    \A c \in Clients : /\ WF_vars(Get(c) \/ Publish(c) \/ Answer(c))
                       /\ WF_vars(Refresh(c))

FairSpec == Spec /\ Fairness

-----------------------------------------------------------------------------
(* Properties.                                                             *)

\* The data key at the server, and in every entry, is the one its content is
\* encrypted with, and there is none for a content that is not encrypted:
\* whatever parameters the application gave.
KeyFitsContent ==
    \A s \in {released, beta} \cup Range(cache) :
       s.content.layers = IF s.key = NoKey THEN << >> ELSE <<s.key>>

\* Both together: what is stored and cached is a content of the applications with
\* the key that belongs to it.
PublishInv == PublishTypeOK /\ KeyFitsContent

\* What get_config returns is the content its publisher gave to publish_config,
\* from the cache or from the server, and whichever of several plugins a client
\* has for an algorithm.
ReadsArePlain == \A c \in Clients : app[c].read.layers = << >>

\* With publish_config_cas, or publish_config_param with an md5, an application
\* never overwrites a mark it has not read: not with a read from a stale entry,
\* not after an answer that was lost, not with a request that arrives late.
Executed ==
    (late \ late') \cup {app[c].req : c \in {d \in Clients : app[d].pc = "sent" /\ app'[d].n # app[d].n}}
NoUpdateLost ==
    [][\A req \in Executed : req.cas # NoMd5
          => released.content.marks \subseteq released'.content.marks]_vars

\* An application that reads and publishes until it succeeds comes to an end, a
\* stale entry notwithstanding, unless the config is removed.
CasSucceeds ==
    \A c \in Clients : app[c].pc = "found" ~> (app[c].pc = "finished" \/ ~released.there)
=============================================================================
