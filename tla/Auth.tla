-------------------------------- MODULE Auth --------------------------------
(***************************************************************************)
(* Authentication of HTTP requests by the user of the client (auth.go) and *)
(* its rules (LoadAuthUIDRules of inifile.go).  A rule is for a group if   *)
(* its name begins with "@": it is a record of that and the rest of the    *)
(* name.  Logging is left out, and so is the cache of AuthUIDinfoLookup.   *)
(***************************************************************************)
EXTENDS Integers, Sequences, FiniteSets, SequencesExt

AuthOpsAll == {"config", "fax", "print", "scan"}

\* Operations of a key of [auth uid].
ParseOps(key) == UNION {IF s = "all" THEN AuthOpsAll ELSE {s} : s \in ToSet(key)}

\* LoadAuthUIDRules.  Empty names are skipped, and so are duplicates; an
\* invalid operation leaves the rules alone.
LoadAuthUIDRules(rules, key, value) ==
  IF ToSet(key) \subseteq AuthOpsAll \cup {"all"}
  THEN LET names == SelectSeq(value, LAMBDA s : s.name # "")
           first == SelectSeq([i \in DOMAIN names |-> <<i, names[i]>>],
                              LAMBDA x : \A j \in 1..x[1] - 1 : names[j] # x[2])
       IN  rules \o [i \in DOMAIN first |->
                       [isGroup |-> first[i][2].isGroup, name |-> first[i][2].name,
                        allowed |-> ParseOps(key)]]
  ELSE rules

MatchUser(rule, name) ==
  IF ~rule.isGroup /\ rule.name \in {"*", name} THEN rule.allowed ELSE {}

MatchGroup(rule, name) ==
  IF rule.isGroup /\ rule.name \in {"*", name} THEN rule.allowed ELSE {}

\* Without rules everything is allowed.
AuthUID(rules, info) ==
  IF rules = <<>> THEN AuthOpsAll
  ELSE UNION {IF r.isGroup THEN UNION {MatchGroup(r, g) : g \in info.groups}
                           ELSE UNION {MatchUser(r, u) : u \in info.users}
              : r \in ToSet(rules)}

\* Mutant: group rules are not looked at.
authUIDrequiresUIDUsers(rules) ==
  \E r \in ToSet(rules) : ~r.isGroup /\ r.name # "*"

authUIDrequiresUID(rules) == \E r \in ToSet(rules) : r.name # "*"

Nobody == [users |-> {"*"}, groups |-> {"*"}]

\* The operation that a request is for.
Operation(rq) ==
  CASE rq.post /\ rq.path = "/ipp/print" -> "print"
    [] rq.post /\ rq.path = "/ipp/faxout" -> "fax"
    [] rq.path = "/eSCL" -> "scan"
    [] OTHER -> "config"

\* AuthHTTPRequest.  rq tells what it asks of the system: whether addresses
\* are local, whether TCPClientUID is supported and what it and the lookup of
\* the user come to.
AuthHTTPRequest(rules, rq) ==
  LET needUID == rq.local /\ rq.supported /\ authUIDrequiresUID(rules)
      info    == IF needUID THEN rq.info ELSE Nobody
  IN  CASE rq.fails = "addrs" -> 500
        [] rq.fails = "uid" /\ needUID -> 500
        [] rq.fails = "lookup" /\ needUID -> 0
        [] OTHER -> IF Operation(rq) \in AuthUID(rules, info) THEN 200 ELSE 403
=============================================================================
