------------------------ MODULE ConfigGeneratorProofs ------------------------
(***************************************************************************)
(* Theorems about ConfigGenerator, for any base configuration, any files   *)
(* and answers of the operator, any file names and number of runs.         *)
(*                                                                         *)
(* The argument: a run knows what it has decided (RunInv) and what it has  *)
(* written of it (FilesInv); a run that is given up writes nothing more,   *)
(* and the next one that ends well writes both files again.  The fields    *)
(* that were looked at are filled in (FieldsInv), so when none is left a   *)
(* file that is saved has all the required texts (not the key: the clean-  *)
(* up may drop it).                                                        *)
(***************************************************************************)
EXTENDS ConfigGenerator, DataInduction

------------------------------------------------------------------------------
(* Configurations and what is done to them.                                *)

(* The keys that are left are values, and none of them is a placeholder.   *)
LEMMA KeysKept ==
  ASSUME NEW keys \in Seq(Value)
  PROVE  WithoutPlaceholders(keys) \in Seq({v \in Value : ~ isPlaceholder(v)})
<1> DEFINE W == {v \in Value : ~ isPlaceholder(v)}
           V == Seq(W)
           n == Len(keys)
           none == << >>
           With(s, k) == IF isPlaceholder(k) THEN s ELSE Append(s, k)
           next == [i \in 1 .. n |-> [s \in V |-> With(s, keys[i])]]
           IsKept(g) == g = [i \in 0 .. n |-> IF i = 0 THEN none ELSE With(g[i - 1], keys[i])]
           kept == CHOOSE g : IsKept(g)
<1>1. n \in Nat /\ \A i \in 1 .. n : keys[i] \in Value
  OBVIOUS
<1>2. none \in V /\ \A i \in 1 .. n : \A s \in V : With(s, keys[i]) \in V
  <2> SUFFICES ASSUME NEW k \in Value, NEW s \in Seq(W) PROVE With(s, k) \in Seq(W)
    BY <1>1
  <2>1. ~ isPlaceholder(k) => k \in W
    OBVIOUS
  <2> HIDE DEF W
  <2> QED BY <2>1
<1>3. WithoutPlaceholders(keys) = kept[n]
  BY DEF WithoutPlaceholders
<1> HIDE DEF V, n, none, With, IsKept, kept
<1>4. PICK f \in [0 .. n -> V] : Iterates(f, n, none, next)
  <2>1. next \in [1 .. n -> [V -> V]] /\ none \in V
    BY <1>2
  <2> HIDE DEF next
  <2> QED BY <1>1, <2>1, PrefixRecursion
<1>5. IsKept(f)
  <2>1. ASSUME NEW i \in 1 .. n PROVE f[i] = With(f[i - 1], keys[i])
    <3>1. i - 1 \in 0 .. n
      BY <1>1
    <3>2. f[i - 1] \in V
      BY <3>1
    <3>3. next[i][f[i - 1]] = With(f[i - 1], keys[i])
      BY <3>2
    <3> QED BY <1>4, <3>3 DEF Iterates
  <2>2. f = [i \in 0 .. n |-> IF i = 0 THEN none ELSE With(f[i - 1], keys[i])]
    <3> HIDE DEF next
    <3>1. f[0] = none
      BY <1>4 DEF Iterates
    <3> QED BY <1>1, <2>1, <3>1
  <2> QED BY <2>2 DEF IsKept
<1>6. IsKept(kept)
  BY <1>5 DEF kept
<1>7. kept[n] \in V
  <2>1. kept[0] \in V
    BY <1>1, <1>2, <1>6 DEF IsKept
  <2>2. \A i \in 1 .. n : kept[i - 1] \in V => kept[i] \in V
    BY <1>1, <1>2, <1>6 DEF IsKept
  <2> QED BY <1>1, <2>1, <2>2, PrefixInduction
<1> QED BY <1>3, <1>7 DEF V

(* A configuration has text in every field, and networks or none.          *)
LEMMA ConfigIs ==
  ASSUME NEW c \in Config
  PROVE  /\ c.text \in [Texts -> Value] /\ c.networks \in [Networks -> OrNone(Network)] /\ c.monitor \in BOOLEAN
         /\ \A n \in Networks : c.networks[n] \in OrNone(Network)
BY DEF Config

(* A network has a URL and keys.                                           *)
LEMMA NetworkIs ==
  ASSUME NEW w \in OrNone(Network), w # None
  PROVE  w \in Network /\ w.url \in Value /\ w.keys \in Seq(Value)
BY DEF OrNone, Network

(* Quoted prices become numbers.                                           *)
LEMMA Normalized ==
  ASSUME NEW c \in Config
  PROVE  normalizePriceFields(c) \in Config
<1>1. PICK t : t = [f \in Texts |-> IF f \in Prices /\ c.text[f] = "'7'" THEN "7" ELSE c.text[f]]
  OBVIOUS
<1>2. t \in [Texts -> Value]
  BY <1>1, ConfigIs DEF Value
<1>3. normalizePriceFields(c) = [c EXCEPT !.text = t]
  BY <1>1 DEF normalizePriceFields
<1> QED BY <1>2, <1>3 DEF Config

(* What is merged is a configuration.                                      *)
LEMMA Merged ==
  ASSUME NEW base \in Config, NEW user \in Config
  PROVE  mergeConfigs(base, user) \in Config
<1>1. PICK u \in Config : u = normalizePriceFields(user)
  BY Normalized
<1>2. Merge(base, u) \in Config
  <2>1. [f \in Texts |-> IF u.text[f] # "" THEN u.text[f] ELSE base.text[f]] \in [Texts -> Value]
    BY ConfigIs
  <2>2. [n \in Networks |-> IF u.networks[n] # None THEN u.networks[n] ELSE base.networks[n]]
          \in [Networks -> OrNone(Network)]
    BY ConfigIs
  <2> QED BY <2>1, <2>2, ConfigIs DEF Merge, Config
<1> QED BY <1>1, <1>2 DEF mergeConfigs

(* A network that is given a first key is one.                             *)
LEMMA FirstKeySet ==
  ASSUME NEW w \in OrNone(Network), NEW v \in Value
  PROVE  SetFirstKey(w, v) \in Network
<1>1. CASE w = None
  <2>1. "" \in Value
    BY DEF Value
  <2>2. << v >> \in Seq(Value)
    OBVIOUS
  <2> QED BY <1>1, <2>1, <2>2 DEF SetFirstKey, Network
<1>2. CASE w # None
  <2>1. w \in Network /\ w.keys \in Seq(Value)
    BY <1>2, NetworkIs
  <2>2. PICK k : k = << v >> \o (IF w.keys = << >> THEN w.keys ELSE Tail(w.keys))
    OBVIOUS
  <2>3. k \in Seq(Value)
    BY <2>1, <2>2
  <2>4. SetFirstKey(w, v) = [w EXCEPT !.keys = k]
    BY <1>2, <2>2 DEF SetFirstKey
  <2> QED BY <2>1, <2>3, <2>4 DEF Network
<1> QED BY <1>1, <1>2

(* Setting a field changes that field only; the key is no text field.      *)
LEMMA FieldSet ==
  ASSUME NEW c \in Config, NEW f \in (Texts \ Optional) \cup {"privateKey"}, NEW v \in Value
  PROVE  /\ setFieldValue(c, f, v) \in Config
         /\ f # "privateKey" => setFieldValue(c, f, v).text[f] = v
         /\ \A g \in Texts \ {f} : setFieldValue(c, f, v).text[g] = c.text[g]
<1>1. CASE f # "privateKey"
  <2>1. PICK t : t = [c.text EXCEPT ![f] = v]
    OBVIOUS
  <2>2. setFieldValue(c, f, v) = [c EXCEPT !.text = t]
    BY <1>1, <2>1 DEF setFieldValue
  <2>3. t \in [Texts -> Value] /\ t[f] = v /\ \A g \in Texts \ {f} : t[g] = c.text[g]
    BY <1>1, <2>1, ConfigIs
  <2> QED BY <1>1, <2>2, <2>3 DEF Config
<1>2. CASE f = "privateKey"
  <2>1. PICK w : w = SetFirstKey(c.networks["ethereum0g"], v)
    OBVIOUS
  <2>2. w \in OrNone(Network)
    <3>1. c.networks["ethereum0g"] \in OrNone(Network)
      BY ConfigIs DEF Networks
    <3> QED BY <2>1, <3>1, FirstKeySet DEF OrNone
  <2>3. PICK ws : ws = [c.networks EXCEPT !["ethereum0g"] = w]
    OBVIOUS
  <2>4. ws \in [Networks -> OrNone(Network)]
    BY <2>2, <2>3, ConfigIs
  <2>5. setFieldValue(c, f, v) = [c EXCEPT !.networks = ws]
    BY <1>2, <2>1, <2>3 DEF setFieldValue
  <2> QED BY <1>2, <2>4, <2>5 DEF Config
<1> QED BY <1>1, <1>2

(* No placeholder among the keys of a network that says something.         *)
CleanIs(w) ==
  w # None => /\ \A i \in DOMAIN w.keys : ~ isPlaceholder(w.keys[i])
              /\ w.url # "" \/ w.keys # << >>

(* A network that is cleaned up is such a one, or gone.                    *)
LEMMA NetworkCleaned ==
  ASSUME NEW w \in OrNone(Network)
  PROVE  CleanNetwork(w) \in OrNone(Network) /\ CleanIs(CleanNetwork(w))
<1>1. CASE CleanNetwork(w) = None
  BY <1>1 DEF OrNone, CleanIs
<1>2. CASE CleanNetwork(w) # None
  <2>1. w # None
    BY <1>2 DEF CleanNetwork
  <2>2. w \in Network /\ w.keys \in Seq(Value)
    BY <2>1, NetworkIs
  <2>3. PICK kept : kept = WithoutPlaceholders(w.keys)
    OBVIOUS
  <2>4. CleanNetwork(w) = [w EXCEPT !.keys = kept] /\ (kept = << >> => w.url # "")
    BY <1>2, <2>3 DEF CleanNetwork
  <2>5. PICK W : W = {v \in Value : ~ isPlaceholder(v)}
    OBVIOUS
  <2>6. kept \in Seq(W)
    BY <2>2, <2>3, <2>5, KeysKept
  <2>7. kept \in Seq(Value) /\ \A i \in DOMAIN kept : kept[i] \in W
    <3>1. W \subseteq Value
      BY <2>5
    <3> QED BY <2>6, <3>1
  <2>8. PICK d : d = [w EXCEPT !.keys = kept]
    OBVIOUS
  <2>9. d \in Network /\ d.keys = kept /\ d.url = w.url
    BY <2>2, <2>7, <2>8 DEF Network
  <2>10. \A i \in DOMAIN d.keys : ~ isPlaceholder(d.keys[i])
    BY <2>5, <2>7, <2>9
  <2> QED BY <2>4, <2>8, <2>9, <2>10 DEF OrNone, CleanIs
<1> QED BY <1>1, <1>2

(* No placeholder in an optional field or a key, no network that says      *)
(* nothing.                                                                *)
Clean(c) ==
  /\ \A f \in Optional : ~ isPlaceholder(c.text[f])
  /\ \A n \in Networks : CleanIs(c.networks[n])

(* Cleaning up does just that, and touches no required text.               *)
LEMMA CleanedUp ==
  ASSUME NEW c \in Config
  PROVE  /\ cleanupPlaceholderFields(c) \in Config /\ Clean(cleanupPlaceholderFields(c))
         /\ \A f \in Texts \ Optional : cleanupPlaceholderFields(c).text[f] = c.text[f]
<1>1. PICK t : t = [f \in Texts |-> IF f \in Optional /\ isPlaceholder(c.text[f]) THEN "" ELSE c.text[f]]
  OBVIOUS
<1>2. /\ t \in [Texts -> Value] /\ \A f \in Texts \ Optional : t[f] = c.text[f]
      /\ \A f \in Optional : ~ isPlaceholder(t[f])
  BY <1>1, ConfigIs DEF Texts, Value, isPlaceholder
<1>3. PICK ws : ws = [n \in Networks |-> CleanNetwork(c.networks[n])]
  OBVIOUS
<1>4. ASSUME NEW n \in Networks PROVE ws[n] \in OrNone(Network) /\ CleanIs(ws[n])
  <2>1. PICK w \in OrNone(Network) : w = c.networks[n]
    BY ConfigIs
  <2>2. ws[n] = CleanNetwork(w)
    BY <1>3, <2>1
  <2> QED BY <2>2, NetworkCleaned
<1>5. ws \in [Networks -> OrNone(Network)]
  BY <1>3, <1>4
<1>6. PICK d : d = [text |-> t, networks |-> ws, monitor |-> c.monitor]
  OBVIOUS
<1>7. cleanupPlaceholderFields(c) = d
  BY <1>1, <1>3, <1>6 DEF cleanupPlaceholderFields
<1>8. d \in Config
  BY <1>2, <1>5, <1>6, ConfigIs DEF Config
<1>9. Clean(d)
  BY <1>2, <1>4, <1>6 DEF Clean
<1> QED BY <1>2, <1>6, <1>7, <1>8, <1>9

------------------------------------------------------------------------------
(* The inductive invariant.                                                *)

(* The required fields are looked at from the first on.                    *)
From(k) == SubSeq(Required, k, 6)
TodoInv == \E k \in 1 .. 7 : todo = From(k)

(* Where a run is tells what it has decided.                               *)
Choosing == {"environment", "ports", "compose", "env"}
RunInv ==
  /\ pc \in {"fields"} \cup Choosing => config \in Config /\ name \in ConfigNames /\ mount \in Mounts
  /\ pc \in {"ports", "compose", "env"} => options \in Options /\ project \in Projects
  /\ pc \in {"compose", "env"} => ports \in [Publishers(options) -> Port]
  /\ pc \notin {"compose", "env"} => ports = None
  /\ pc = "done" => name \in ConfigNames

(* Required texts that were looked at are filled in, with a placeholder    *)
(* only if the operator typed it.                                          *)
Filled(c, f) == c.text[f] # "" /\ (c.text[f] = "<x>" => "<x>" \in Answers /\ f \notin URLs)
FieldsInv ==
  pc = "fields" => \A f \in Texts \ Optional : Filled(config, f) \/ \E i \in DOMAIN todo : todo[i] = f

(* The configuration was saved as it is; the compose file was written from *)
(* it; the two stay as they are until the next run saves.                  *)
Fits(c) ==
  /\ c.mount = mount
  /\ c.options.nginx => c.ports["nginx"] = ServingPort(files[name].text["servingUrl"])
FilesInv ==
  /\ files = [p \in Paths |-> files[p]]
  /\ pc \in Choosing => files[name] = config
  /\ pc \in {"compose", "env"} /\ options.nginx =>
       ports["nginx"] = ServingPort(config.text["servingUrl"])
  /\ pc = "env" => Written = Compose(options, ports, mount, project)
  /\ pc = "done" => files[name] # None /\ Fits(Written)

(* The end of a sequence from some place on.                               *)
LEMMA EndOf ==
  ASSUME NEW S, NEW q \in Seq(S), NEW n \in Nat, Len(q) = n, NEW k \in 1 .. n + 1
  PROVE  /\ SubSeq(q, k, n) \in Seq(S) /\ Len(SubSeq(q, k, n)) = (n + 1) - k
         /\ DOMAIN SubSeq(q, k, n) = 1 .. (n + 1) - k
         /\ \A i \in 1 .. (n + 1) - k : SubSeq(q, k, n)[i] = q[k + i - 1]
<1>1. k \in Int /\ k >= 1 /\ k <= n + 1 /\ DOMAIN q = 1 .. n
  OBVIOUS
<1>2. SubSeq(q, k, n) = [i \in 1 .. (n + 1) - k |-> q[k + i - 1]]
  <2>1. \A i \in 1 .. (n + 1) - k : q[k + i - 1] = q[i + k - 1]
    BY <1>1
  <2> QED BY <1>1, <2>1
<1>3. \A i \in 1 .. (n + 1) - k : k + i - 1 \in 1 .. n
  BY <1>1
<1>4. \A i \in 1 .. (n + 1) - k : q[k + i - 1] \in S
  BY <1>1, <1>3
<1>5. (n + 1) - k \in Nat
  BY <1>1
<1> QED BY <1>2, <1>4, <1>5

(* What is left of a list without its first element.                       *)
LEMMA TailOf ==
  ASSUME NEW S, NEW s \in Seq(S), NEW m \in Nat, Len(s) = m + 1
  PROVE  /\ s # << >> /\ Head(s) = s[1] /\ Tail(s) \in Seq(S) /\ Len(Tail(s)) = m
         /\ \A i \in 1 .. m : Tail(s)[i] = s[i + 1]
<1>1. s # << >>
  BY SMTT(30)
<1>2. Head(s) = s[1]
  BY SMTT(30)
<1>3. Tail(s) \in Seq(S) /\ Len(Tail(s)) = m
  BY <1>1, SMTT(30)
<1>4. \A i \in 1 .. m : Tail(s)[i] = s[i + 1]
  BY <1>1, SMTT(30)
<1> QED BY <1>1, <1>2, <1>3, <1>4

(* Lists of one length with the same elements are the same.                *)
LEMMA SameSeq ==
  ASSUME NEW S, NEW s \in Seq(S), NEW t \in Seq(S), NEW m \in Nat, Len(s) = m, Len(t) = m,
         \A i \in 1 .. m : s[i] = t[i]
  PROVE  s = t
<1>1. s = [i \in 1 .. m |-> s[i]]
  BY SMTT(30)
<1>2. t = [i \in 1 .. m |-> t[i]]
  BY SMTT(30)
<1>3. [i \in 1 .. m |-> s[i]] = [i \in 1 .. m |-> t[i]]
  OBVIOUS
<1> QED BY <1>1, <1>2, <1>3

(* Going on by one takes the first of it.                                  *)
LEMMA EndsAre ==
  ASSUME NEW S, NEW q \in Seq(S), NEW n \in Nat, Len(q) = n
  PROVE  /\ \A k \in 1 .. n + 1 : IsSuffix(SubSeq(q, k, n), q)
         /\ \A k \in 1 .. n : /\ SubSeq(q, k, n) # << >> /\ Head(SubSeq(q, k, n)) = q[k]
                            /\ Tail(SubSeq(q, k, n)) = SubSeq(q, k + 1, n)
<1>1. ASSUME NEW k \in 1 .. n + 1 PROVE IsSuffix(SubSeq(q, k, n), q)
  <2>1. PICK s : s \in Seq(S) /\ s = SubSeq(q, k, n)
    <3>1. k \in 1 .. n + 1 /\ SubSeq(q, k, n) \in Seq(S)
      BY EndOf
    <3> QED BY <3>1
  <2>2. PICK m : m = (n + 1) - k
    OBVIOUS
  <2>3. m \in Nat /\ m <= n /\ Len(s) = m /\ \A i \in 1 .. m : s[i] = q[k + i - 1]
    BY <2>1, <2>2, EndOf
  <2>4. PICK r : r = Reverse(s)
    OBVIOUS
  <2>5. PICK b : b = Reverse(q)
    OBVIOUS
  <2>6. r = [i \in 1 .. m |-> s[(m - i) + 1]] /\ b = [i \in 1 .. n |-> q[(n - i) + 1]]
    BY <2>3, <2>4, <2>5 DEF Reverse
  <2>7. \A i \in 1 .. m : (m - i) + 1 \in 1 .. m /\ k + ((m - i) + 1) - 1 = (n - i) + 1 /\ i \in 1 .. n
    BY <2>2, <2>3
  <2>8. ASSUME NEW i \in 1 .. m PROVE r[i] = b[i]
    <3>1. r[i] = s[(m - i) + 1] /\ b[i] = q[(n - i) + 1]
      BY <2>6, <2>7
    <3>2. s[(m - i) + 1] = q[k + ((m - i) + 1) - 1]
      BY <2>3, <2>7
    <3> QED BY <2>7, <3>1, <3>2
  <2>9. r \in Seq(S) /\ b \in Seq(S) /\ Len(r) = m /\ Len(b) = n
    <3>1. \A i \in 1 .. m : s[(m - i) + 1] \in S
      <4>1. \A j \in 1 .. m : s[j] \in S
        BY <2>1, <2>3
      <4>2. \A i \in 1 .. m : (m - i) + 1 \in 1 .. m
        BY <2>7
      <4> QED BY <4>1, <4>2
    <3>2. \A i \in 1 .. n : (n - i) + 1 \in 1 .. n /\ q[(n - i) + 1] \in S
      OBVIOUS
    <3>3. r \in [1 .. m -> S] /\ b \in [1 .. n -> S]
      BY <2>6, <3>1, <3>2
    <3>4. \A l \in Nat : \A f \in [1 .. l -> S] : f \in Seq(S) /\ Len(f) = l
      OBVIOUS
    <3>5. m \in Nat /\ n \in Nat
      BY <2>3
    <3> QED BY <3>3, <3>4, <3>5
  <2>10. SubSeq(r, 1, m) = SubSeq(b, 1, m)
    <3>1. SubSeq(r, 1, m) = [i \in 1 .. m |-> r[i]] /\ SubSeq(b, 1, m) = [i \in 1 .. m |-> b[i]]
      BY <2>3, <2>9
    <3> QED BY <2>8, <3>1
  <2> QED BY <2>1, <2>3, <2>4, <2>5, <2>9, <2>10 DEF IsSuffix, IsPrefix
<1>2. ASSUME NEW k \in 1 .. n
      PROVE  /\ SubSeq(q, k, n) # << >> /\ Head(SubSeq(q, k, n)) = q[k]
             /\ Tail(SubSeq(q, k, n)) = SubSeq(q, k + 1, n)
  <2>1. PICK s : s \in Seq(S) /\ s = SubSeq(q, k, n)
    <3>1. k \in 1 .. n + 1 /\ SubSeq(q, k, n) \in Seq(S)
      BY EndOf
    <3> QED BY <3>1
  <2>2. PICK t : t \in Seq(S) /\ t = SubSeq(q, k + 1, n)
    <3>1. k + 1 \in 1 .. n + 1 /\ SubSeq(q, k + 1, n) \in Seq(S)
      BY EndOf
    <3> QED BY <3>1
  <2>3. PICK m : m = n - k
    OBVIOUS
  <2>4. m \in Nat /\ Len(s) = m + 1 /\ \A i \in 1 .. m + 1 : s[i] = q[k + i - 1]
    BY <2>1, <2>3, EndOf
  <2>5. k + 1 \in 1 .. n + 1 /\ (n + 1) - (k + 1) = m
    BY <2>3
  <2>6. Len(t) = m /\ \A i \in 1 .. m : t[i] = q[(k + 1) + i - 1]
    BY <2>2, <2>5, EndOf
  <2>7. Tail(s) \in Seq(S) /\ Len(Tail(s)) = m /\ \A i \in 1 .. m : Tail(s)[i] = s[i + 1]
    BY <2>1, <2>4, TailOf
  <2>8. \A i \in 1 .. m : Tail(s)[i] = t[i]
    <3>1. \A i \in 1 .. m : i + 1 \in 1 .. m + 1 /\ k + (i + 1) - 1 = (k + 1) + i - 1
      BY <2>4
    <3> QED BY <2>4, <2>6, <2>7, <3>1
  <2>9. Tail(s) = t
    <3>1. PICK u : u = Tail(s)
      OBVIOUS
    <3>2. u \in Seq(S) /\ t \in Seq(S) /\ m \in Nat /\ Len(u) = m /\ Len(t) = m
      BY <2>2, <2>4, <2>6, <2>7, <3>1
    <3>3. \A i \in 1 .. m : u[i] = t[i]
      BY <2>8, <3>1
    <3>4. u = t
      BY <3>2, <3>3, SameSeq
    <3> QED BY <3>1, <3>4
  <2>10. s # << >> /\ Head(s) = q[k]
    <3>1. s # << >> /\ Head(s) = s[1]
      BY <2>1, <2>4, TailOf
    <3>2. 1 \in 1 .. m + 1 /\ k + 1 - 1 = k
      BY <2>4
    <3> QED BY <2>4, <3>1, <3>2
  <2> QED BY <2>1, <2>2, <2>9, <2>10
<1> QED BY <1>1, <1>2

(* What is left to look at is an end of the list of required fields.       *)
LEMMA TodoIs ==
  /\ \A k \in 1 .. 7 : /\ IsSuffix(From(k), Required) /\ DOMAIN From(k) = 1 .. 7 - k
                       /\ \A i \in 1 .. 7 - k : From(k)[i] = Required[k + i - 1]
  /\ \A k \in 1 .. 6 : From(k) # << >> /\ Head(From(k)) = Required[k] /\ Tail(From(k)) = From(k + 1)
  /\ From(1) = Required /\ From(7) = << >>
<1>1. PICK q : q = Required
  OBVIOUS
<1>2. PICK S : q \in Seq(S) /\ Len(q) = 6
  <2>1. Required \in Seq(Texts \cup {"privateKey"}) /\ Len(Required) = 6
    BY DEF Required, Texts, URLs, Prices
  <2> QED BY <1>1, <2>1
<1>3. \A k \in 1 .. 7 : IsSuffix(SubSeq(q, k, 6), q)
  <2>1. 6 \in Nat /\ 6 + 1 = 7
    OBVIOUS
  <2>2. \A k \in 1 .. 6 + 1 : IsSuffix(SubSeq(q, k, 6), q)
    BY <1>2, <2>1, EndsAre
  <2> QED BY <2>1, <2>2
<1>4. \A k \in 1 .. 6 : /\ SubSeq(q, k, 6) # << >> /\ Head(SubSeq(q, k, 6)) = q[k]
                        /\ Tail(SubSeq(q, k, 6)) = SubSeq(q, k + 1, 6)
  <2>1. 6 \in Nat
    OBVIOUS
  <2> QED BY <1>2, <2>1, EndsAre
<1>5. \A k \in 1 .. 7 : /\ SubSeq(q, k, 6) \in Seq(S) /\ Len(SubSeq(q, k, 6)) = 7 - k
                        /\ DOMAIN SubSeq(q, k, 6) = 1 .. 7 - k
                        /\ \A i \in 1 .. 7 - k : SubSeq(q, k, 6)[i] = q[k + i - 1]
  <2>1. 6 \in Nat /\ 6 + 1 = 7
    OBVIOUS
  <2>2. \A k \in 1 .. 6 + 1 :
          /\ SubSeq(q, k, 6) \in Seq(S) /\ Len(SubSeq(q, k, 6)) = (6 + 1) - k
          /\ DOMAIN SubSeq(q, k, 6) = 1 .. (6 + 1) - k
          /\ \A i \in 1 .. (6 + 1) - k : SubSeq(q, k, 6)[i] = q[k + i - 1]
    BY <1>2, <2>1, EndOf
  <2> QED BY <2>1, <2>2
<1>6. SubSeq(q, 1, 6) = q /\ SubSeq(q, 7, 6) = << >>
  BY <1>2
<1> QED BY <1>1, <1>3, <1>4, <1>5, <1>6 DEF From

(* What promptPortConfiguration makes of the answers.                       *)
Valid(typed) == \A s \in DOMAIN typed : typed[s] = 0 \/ validatePort(typed[s])
PortsOf(o, c, typed) ==
  [s \in Publishers(o) |-> IF s = "nginx" THEN ServingPort(c.text["servingUrl"])
                           ELSE IF typed[s] = 0 THEN DefaultPort(s) ELSE typed[s]]

(* The ports that are used without being asked for.                        *)
LEMMA DefaultsAre ==
  /\ \A s \in {"mysql", "broker", "hardhat", "prometheus", "grafana"} : DefaultPort(s) \in Port
  /\ \A v : ServingPort(v) \in Port
<1>1. {80, 8080, 3080, 33060, 8545, 9090, 3003} \subseteq Port
  BY DEF Port
<1>2. ASSUME NEW s \in {"mysql", "broker", "hardhat", "prometheus", "grafana"}
      PROVE  DefaultPort(s) \in {80, 33060, 8545, 9090, 3003}
  BY DEF DefaultPort
<1>3. ASSUME NEW v PROVE ServingPort(v) \in {80, 8080, 3080}
  BY DEF ServingPort
<1> QED BY <1>1, <1>2, <1>3

(* Ports that are published are valid, and the proxy has the one of the    *)
(* serving URL.                                                            *)
LEMMA PortsAre ==
  ASSUME NEW o \in Options, NEW c \in Config,
         NEW typed \in [Publishers(o) \ {"nginx"} -> PortAnswers], Valid(typed)
  PROVE  /\ PortsOf(o, c, typed) \in [Publishers(o) -> Port]
         /\ o.nginx => PortsOf(o, c, typed)["nginx"] = ServingPort(c.text["servingUrl"])
<1>1. Publishers(o) \subseteq {"mysql", "nginx", "broker", "hardhat", "prometheus", "grafana"}
      /\ (o.nginx => "nginx" \in Publishers(o))
  BY DEF Publishers, If
<1>2. \A s \in Publishers(o) \ {"nginx"} : DefaultPort(s) \in Port
  BY <1>1, DefaultsAre
<1>3. \A s \in Publishers(o) \ {"nginx"} : typed[s] = 0 \/ typed[s] \in Port
  BY DEF Valid, validatePort
<1>4. ServingPort(c.text["servingUrl"]) \in Port
  BY DefaultsAre
<1> QED BY <1>1, <1>2, <1>3, <1>4 DEF PortsOf

------------------------------------------------------------------------------
(* What each step keeps.                                                   *)

IInv == TypeOK /\ TodoInv /\ RunInv /\ FilesInv

(* A run that ends leaves the files it was to write, or those before it.   *)
LEMMA AbortKeeps ==
  ASSUME IInv, Abort
  PROVE  IInv'
<1>1. /\ pc' = "ended" /\ config' = None /\ todo' = << >> /\ name' = None /\ mount' = None
      /\ options' = None /\ project' = None /\ ports' = None /\ UNCHANGED << runs, files, dotenv, container >>
  BY DEF Abort, Exit
<1>2. todo' = From(7)
  BY <1>1, TodoIs
<1>3. TodoInv'
  BY <1>2 DEF TodoInv
<1>4. TypeOK'
  <2>1. IsSuffix(todo', Required)
    BY <1>2, TodoIs
  <2>2. /\ config' \in OrNone(Config) /\ name' \in OrNone(ConfigNames) /\ options' \in OrNone(Options)
        /\ mount' \in OrNone(Mounts) /\ project' \in OrNone(Projects) /\ ports' = None
    BY <1>1 DEF OrNone
  <2> QED BY <1>1, <2>1, <2>2 DEF IInv, TypeOK
<1>5. RunInv' /\ FilesInv'
  BY <1>1 DEF IInv, RunInv, FilesInv, Choosing
<1> QED BY <1>3, <1>4, <1>5 DEF IInv

(* A run that begins knows nothing.                                        *)
LEMMA BeginKeeps ==
  ASSUME IInv, promptOutputDirectory
  PROVE  IInv'
<1>1. /\ pc \in {"ended", "done"} /\ pc' = "yaml" /\ runs' = runs + 1 /\ runs < MaxRuns
      /\ UNCHANGED << config, todo, name, mount, options, project, ports, files, dotenv, container >>
  BY DEF promptOutputDirectory
<1>2. TodoInv' /\ RunInv' /\ FilesInv'
  BY <1>1 DEF IInv, TodoInv, RunInv, FilesInv, Choosing
<1>3. runs' \in 0 .. MaxRuns
  <2>1. MaxRuns \in Nat /\ runs \in 0 .. MaxRuns
    BY ConfigAssumption DEF IInv, TypeOK
  <2> QED BY <1>1, <2>1
<1>4. TypeOK'
  BY <1>1, <1>3 DEF IInv, TypeOK
<1> QED BY <1>2, <1>4 DEF IInv

(* What is loaded and merged is a configuration.                           *)
LEMMA LoadKeeps ==
  ASSUME IInv, loadAndMergeConfigs
  PROVE  IInv'
<1>1. /\ pc = "yaml" /\ pc' = "fields" /\ todo' = Required /\ name' \in ConfigNames /\ mount' \in Mounts
      /\ UNCHANGED << runs, options, project, ports, files, dotenv, container >>
  BY DEF loadAndMergeConfigs, Mounts
<1>2. config' \in Config
  <2>1. normalizePriceFields(Base) \in Config
    BY ConfigAssumption, Normalized
  <2>2. \A user \in UserFiles : mergeConfigs(normalizePriceFields(Base), user) \in Config
    BY <2>1, ConfigAssumption, Merged
  <2> QED BY <2>1, <2>2 DEF loadAndMergeConfigs
<1>3. todo' = From(1)
  BY <1>1, TodoIs
<1>4. TodoInv'
  BY <1>3 DEF TodoInv
<1>5. TypeOK'
  <2>1. IsSuffix(todo', Required)
    BY <1>3, TodoIs
  <2>2. ports' # None => ports' \in [Publishers(options') -> Port]
    BY <1>1 DEF IInv, TypeOK
  <2>3. config' \in OrNone(Config) /\ name' \in OrNone(ConfigNames) /\ mount' \in OrNone(Mounts)
    BY <1>1, <1>2 DEF OrNone
  <2> QED BY <1>1, <2>1, <2>2, <2>3 DEF IInv, TypeOK
<1>6. RunInv' /\ FilesInv'
  BY <1>1, <1>2 DEF IInv, RunInv, FilesInv, Choosing
<1> QED BY <1>4, <1>5, <1>6 DEF IInv

(* The field that is looked at, and what becomes of it.                    *)
LEMMA FieldIs ==
  ASSUME IInv, checkAndPromptRequiredFields
  PROVE  \E k \in 1 .. 6 :
           /\ todo = From(k) /\ todo' = From(k + 1) /\ config \in Config /\ config' \in Config
           /\ Required[k] \in (Texts \ Optional) \cup {"privateKey"}
           /\ \/ config' = config /\ ~ needsInput(getFieldValue(config, Required[k]))
              \/ \E v \in Answers :
                   validAnswer(Required[k], v) /\ config' = setFieldValue(config, Required[k], v)
<1>1. PICK k \in 1 .. 7 : todo = From(k)
  BY DEF IInv, TodoInv
<1>2. k \in 1 .. 6 /\ Head(todo) = Required[k] /\ todo' = From(k + 1)
  <2>1. k # 7
    BY <1>1, TodoIs DEF checkAndPromptRequiredFields
  <2>2. k \in 1 .. 6
    BY <2>1
  <2> QED BY <1>1, <2>2, TodoIs DEF checkAndPromptRequiredFields
<1>3. Required[k] \in (Texts \ Optional) \cup {"privateKey"}
  BY <1>2 DEF Required, Texts, URLs, Prices, Optional
<1>4. config \in Config
  BY DEF IInv, RunInv, checkAndPromptRequiredFields
<1>5. \/ config' = config /\ ~ needsInput(getFieldValue(config, Required[k]))
      \/ \E v \in Answers : validAnswer(Required[k], v) /\ config' = setFieldValue(config, Required[k], v)
  BY <1>2 DEF checkAndPromptRequiredFields
<1>6. config' \in Config
  <2>1. ASSUME NEW v \in Answers, config' = setFieldValue(config, Required[k], v)
        PROVE  config' \in Config
    <3>1. v \in Value
      BY ConfigAssumption
    <3>2. PICK f \in (Texts \ Optional) \cup {"privateKey"} : f = Required[k]
      BY <1>3
    <3>3. setFieldValue(config, f, v) \in Config
      BY <1>4, <3>1, FieldSet
    <3> QED BY <2>1, <3>2, <3>3
  <2> QED BY <1>4, <1>5, <2>1
<1> QED BY <1>1, <1>2, <1>3, <1>4, <1>5, <1>6

(* The next field is looked at.                                            *)
LEMMA FieldKeeps ==
  ASSUME IInv, checkAndPromptRequiredFields
  PROVE  IInv'
<1>1. PICK k \in 1 .. 6 : todo' = From(k + 1) /\ config' \in Config
  BY FieldIs
<1>2. pc = "fields" /\ UNCHANGED << pc, runs, name, mount, options, project, ports, files, dotenv, container >>
  BY DEF checkAndPromptRequiredFields
<1>3. k + 1 \in 1 .. 7
  OBVIOUS
<1>4. TodoInv'
  BY <1>1, <1>3 DEF TodoInv
<1>5. IsSuffix(todo', Required)
  BY <1>1, <1>3, TodoIs
<1>6. TypeOK'
  BY <1>1, <1>2, <1>5 DEF IInv, TypeOK, OrNone
<1>7. RunInv' /\ FilesInv'
  BY <1>1, <1>2 DEF IInv, RunInv, FilesInv, Choosing
<1> QED BY <1>4, <1>6, <1>7 DEF IInv

(* The configuration is saved as it is then.                               *)
LEMMA SaveKeeps ==
  ASSUME IInv, saveConfig
  PROVE  /\ IInv' /\ name \in ConfigNames /\ config \in Config /\ todo = << >> /\ pc = "fields"
         /\ files'[name] = cleanupPlaceholderFields(config)
         /\ \A n \in ConfigNames \ {name} : files'[n] = files[n]
<1>1. /\ pc = "fields" /\ todo = << >> /\ pc' = "environment"
      /\ config' = cleanupPlaceholderFields(config) /\ files' = [files EXCEPT ![name] = config']
      /\ UNCHANGED << runs, todo, name, mount, options, project, ports, dotenv, container >>
  BY DEF saveConfig
<1>2. config \in Config /\ name \in ConfigNames
  BY <1>1 DEF IInv, RunInv
<1>3. config' \in Config /\ name \in Paths
  BY <1>1, <1>2, CleanedUp DEF Paths
<1>4. /\ files'[name] = config' /\ files' = [p \in Paths |-> files'[p]]
      /\ \A p \in Paths \ {name} : files'[p] = files[p]
  <2>1. PICK v, fs : v = config' /\ fs = files'
    OBVIOUS
  <2>2. fs = [files EXCEPT ![name] = v]
    BY <1>1, <2>1
  <2>3. fs[name] = v /\ (\A p \in Paths \ {name} : fs[p] = files[p]) /\ fs = [p \in Paths |-> fs[p]]
    BY <1>3, <2>2 DEF IInv, FilesInv
  <2> QED BY <2>1, <2>3
<1>5. \A n \in ConfigNames \ {name} : files'[n] = files[n]
  BY <1>4 DEF Paths
<1>6. TypeOK'
  <2>1. \A n \in ConfigNames : files'[n] \in OrNone(Config)
    BY <1>3, <1>4, <1>5 DEF IInv, TypeOK, OrNone
  <2>2. ports' # None => ports' \in [Publishers(options') -> Port]
    BY <1>1 DEF IInv, TypeOK
  <2>3. config' \in OrNone(Config)
    BY <1>3 DEF OrNone
  <2> QED BY <1>1, <2>1, <2>2, <2>3 DEF IInv, TypeOK
<1>7. TodoInv' /\ RunInv' /\ FilesInv'
  BY <1>1, <1>2, <1>3, <1>4 DEF IInv, TodoInv, RunInv, FilesInv, Choosing
<1> QED BY <1>1, <1>2, <1>4, <1>5, <1>6, <1>7 DEF IInv

(* Options and project are chosen.                                         *)
LEMMA EnvironmentKeeps ==
  ASSUME IInv, promptEnvironmentConfig
  PROVE  IInv'
<1>1. /\ pc = "environment" /\ pc' = "ports" /\ project' \in Projects /\ options' \in Options
      /\ UNCHANGED << runs, config, todo, name, mount, ports, files, dotenv, container >>
  BY DEF promptEnvironmentConfig
<1>2. ports' = None
  BY <1>1 DEF IInv, RunInv
<1>3. TypeOK'
  BY <1>1, <1>2 DEF IInv, TypeOK, OrNone
<1>4. TodoInv' /\ RunInv' /\ FilesInv'
  BY <1>1 DEF IInv, TodoInv, RunInv, FilesInv, Choosing
<1> QED BY <1>3, <1>4 DEF IInv

(* Ports are typed, defaults, or that of the serving URL.                  *)
LEMMA PortKeeps ==
  ASSUME IInv, promptPortConfiguration
  PROVE  IInv'
<1>1. /\ pc = "ports" /\ pc' = "compose"
      /\ UNCHANGED << runs, config, todo, name, mount, options, project, files, dotenv, container >>
  BY DEF promptPortConfiguration
<1>2. config \in Config /\ options \in Options
  BY <1>1 DEF IInv, RunInv, Choosing
<1>3. PICK typed \in [Publishers(options) \ {"nginx"} -> PortAnswers] :
        Valid(typed) /\ ports' = PortsOf(options, config, typed)
  BY DEF promptPortConfiguration, Valid, PortsOf
<1>4. /\ ports' \in [Publishers(options) -> Port]
      /\ options.nginx => ports'["nginx"] = ServingPort(config.text["servingUrl"])
  BY <1>2, <1>3, PortsAre
<1>5. TypeOK'
  BY <1>1, <1>4 DEF IInv, TypeOK
<1>6. TodoInv' /\ RunInv' /\ FilesInv'
  BY <1>1, <1>4 DEF IInv, TodoInv, RunInv, FilesInv, Choosing
<1> QED BY <1>5, <1>6 DEF IInv

(* The compose file is written over the one that was there.                *)
LEMMA ComposeKeeps ==
  ASSUME IInv, generateDockerCompose
  PROVE  IInv' /\ \A n \in ConfigNames : files'[n] = files[n]
<1>1. /\ pc = "compose" /\ pc' = "env"
      /\ files' = [files EXCEPT ![ComposeFile] = Compose(options, ports, mount, project)]
      /\ UNCHANGED << runs, config, todo, name, mount, options, project, ports, dotenv, container >>
  BY DEF generateDockerCompose
<1>2. /\ Written' = Compose(options, ports, mount, project) /\ files' = [p \in Paths |-> files'[p]]
      /\ \A p \in Paths \ {ComposeFile} : files'[p] = files[p]
  <2>1. PICK v, fs : v = Compose(options, ports, mount, project) /\ fs = files'
    OBVIOUS
  <2>2. fs = [files EXCEPT ![ComposeFile] = v] /\ ComposeFile \in Paths
    BY <1>1, <2>1 DEF Paths
  <2>3. /\ fs[ComposeFile] = v /\ fs = [p \in Paths |-> fs[p]]
        /\ \A p \in Paths \ {ComposeFile} : fs[p] = files[p]
    BY <2>2 DEF IInv, FilesInv
  <2> QED BY <2>1, <2>3 DEF Written
<1>3. \A n \in ConfigNames : files'[n] = files[n]
  BY <1>2, ConfigAssumption DEF Paths
<1>4. TypeOK'
  BY <1>1, <1>3 DEF IInv, TypeOK
<1>5. name \in ConfigNames
  BY <1>1 DEF IInv, RunInv, Choosing
<1>6. TodoInv' /\ RunInv' /\ FilesInv'
  BY <1>1, <1>2, <1>3, <1>5 DEF IInv, TodoInv, RunInv, FilesInv, Choosing
<1> QED BY <1>3, <1>4, <1>6 DEF IInv

(* The run ends well: what it has saved is there, and what it has written  *)
(* fits.                                                                   *)
LEMMA EnvKeeps ==
  ASSUME IInv, generateEnvFile
  PROVE  IInv'
<1>1. /\ pc = "env" /\ pc' = "done" /\ config' = None /\ todo' = << >> /\ name' = name
      /\ mount' = mount /\ options' = None /\ project' = None /\ ports' = None
      /\ dotenv' = (IF project # "" THEN project ELSE dotenv) /\ UNCHANGED << runs, files, container >>
  BY DEF generateEnvFile, Exit
<1>2. todo' = From(7)
  BY <1>1, TodoIs
<1>3. TodoInv'
  BY <1>2 DEF TodoInv
<1>4. name \in ConfigNames /\ mount \in Mounts /\ config \in Config /\ project \in Projects
  BY <1>1 DEF IInv, RunInv, Choosing
<1>5. dotenv' \in OrNone(Projects \ {""})
  BY <1>1, <1>4 DEF IInv, TypeOK, OrNone
<1>6. TypeOK'
  <2>1. IsSuffix(todo', Required)
    BY <1>2, TodoIs
  <2>2. /\ config' \in OrNone(Config) /\ name' \in OrNone(ConfigNames) /\ options' \in OrNone(Options)
        /\ mount' \in OrNone(Mounts) /\ project' \in OrNone(Projects) /\ ports' = None
    BY <1>1, <1>4 DEF OrNone
  <2> QED BY <1>1, <1>5, <2>1, <2>2 DEF IInv, TypeOK
<1>7. RunInv'
  BY <1>1, <1>4 DEF RunInv, Choosing
<1>8. FilesInv'
  <2>1. /\ files[name] = config /\ Written = Compose(options, ports, mount, project)
        /\ options.nginx => ports["nginx"] = ServingPort(config.text["servingUrl"])
    BY <1>1 DEF IInv, FilesInv, Choosing
  <2>2. config # None
    BY <1>4, ConfigAssumption
  <2>3. Fits(Written)
    BY <2>1 DEF Fits, Compose
  <2>4. Fits(Written)' <=> Fits(Written)
    BY <1>1 DEF Fits, Written
  <2> QED BY <1>1, <2>1, <2>2, <2>3, <2>4 DEF IInv, FilesInv, Choosing
<1> QED BY <1>3, <1>6, <1>7, <1>8 DEF IInv

(* Docker leaves the directory alone.                                      *)
LEMMA DeployKeeps ==
  ASSUME IInv, ComposeUp \/ \E s \in AllServices : Docker(s)
  PROVE  IInv' /\ UNCHANGED << config, todo, files >> /\ pc' = "up"
<1>1. /\ pc \in {"ended", "done", "up"} /\ pc' = "up"
      /\ UNCHANGED << runs, config, todo, name, mount, options, project, ports, files, dotenv >>
  BY DEF ComposeUp, Docker, wizard
<1>2. container' \in [AllServices -> {"absent", "created", "running", "healthy"}]
  BY DEF IInv, TypeOK, ComposeUp, Docker, Up, StartContainer, BecomeHealthy
<1>3. TypeOK'
  BY <1>1, <1>2 DEF IInv, TypeOK
<1>4. TodoInv' /\ RunInv' /\ FilesInv'
  BY <1>1 DEF IInv, TodoInv, RunInv, FilesInv, Choosing
<1> QED BY <1>1, <1>3, <1>4 DEF IInv

(* Every step keeps the invariant.                                         *)
LEMMA IInvKept ==
  ASSUME IInv, [Next]_vars
  PROVE  IInv'
<1>1. CASE UNCHANGED vars
  BY <1>1 DEF IInv, TypeOK, TodoInv, RunInv, FilesInv, Fits, Written, Choosing, vars, wizard
<1>2. CASE Next
  BY <1>2, AbortKeeps, BeginKeeps, LoadKeeps, FieldKeeps, SaveKeeps, EnvironmentKeeps, PortKeeps,
     ComposeKeeps, EnvKeeps, DeployKeeps DEF Next
<1> QED BY <1>1, <1>2

(* Before the first run the directory is empty.                            *)
LEMMA IInvInit ==
  ASSUME Init
  PROVE  IInv
<1>1. todo = From(7)
  BY TodoIs DEF Init
<1>2. TodoInv
  BY <1>1 DEF TodoInv
<1>3. 0 \in 0 .. MaxRuns
  BY ConfigAssumption
<1>4. TypeOK
  <2>1. IsSuffix(todo, Required)
    BY <1>1, TodoIs
  <2>2. \A n \in ConfigNames : files[n] = None
    BY DEF Init, Paths
  <2> QED BY <1>3, <2>1, <2>2 DEF Init, TypeOK, OrNone
<1>5. RunInv /\ FilesInv
  BY DEF Init, RunInv, FilesInv, Choosing
<1> QED BY <1>2, <1>4, <1>5 DEF IInv

(* What a run has decided, and what it has written of it, in every state.  *)
THEOREM Invariance == Spec => []IInv
BY IInvInit, IInvKept, PTL DEF Spec

(* The wizard's state, the files and the containers are what they are said *)
(* to be, whatever runs came before.                                       *)
THEOREM TypesKept == Spec => []TypeOK
<1>1. IInv => TypeOK
  BY DEF IInv
<1> QED BY <1>1, Invariance, PTL

(* generateDockerCompose, saveConfig: after a run that ended well the      *)
(* compose file mounts what the run saved, if the mount path says so, and  *)
(* the proxy has its port, whatever earlier runs, given up or not, have    *)
(* left.                                                                   *)
THEOREM FilesOfARunAgree == Spec => []FilesAgree
<1>1. ASSUME IInv PROVE FilesAgree
  <2> SUFFICES ASSUME pc = "done", mount = name
               PROVE  /\ Written.mount = name /\ Mounted # None
                      /\ Written.options.nginx =>
                           Written.ports["nginx"] = ServingPort(Mounted.text["servingUrl"])
    BY DEF FilesAgree
  <2>1. name \in ConfigNames /\ files[name] # None /\ Fits(Written)
    BY <1>1 DEF IInv, RunInv, FilesInv
  <2>2. Written.mount = name
    BY <2>1 DEF Fits
  <2>3. name \in DOMAIN files
    BY <1>1, <2>1 DEF IInv, FilesInv, Paths
  <2>4. Mounted = files[name]
    BY <2>2, <2>3 DEF Mounted
  <2> QED BY <2>1, <2>2, <2>4 DEF Fits
<1> QED BY <1>1, Invariance, PTL

------------------------------------------------------------------------------
(* What is saved is filled in.                                             *)

(* A field that was looked at is filled in, and others keep what they had. *)
LEMMA FieldFilled ==
  ASSUME IInv, FieldsInv, checkAndPromptRequiredFields
  PROVE  FieldsInv'
<1>1. PICK k \in 1 .. 6 :
        /\ todo = From(k) /\ todo' = From(k + 1) /\ config \in Config /\ config' \in Config
        /\ Required[k] \in (Texts \ Optional) \cup {"privateKey"}
        /\ \/ config' = config /\ ~ needsInput(getFieldValue(config, Required[k]))
           \/ \E v \in Answers : validAnswer(Required[k], v) /\ config' = setFieldValue(config, Required[k], v)
  BY FieldIs
<1>2. pc = "fields" /\ pc' = "fields"
  BY DEF checkAndPromptRequiredFields
<1>3. ASSUME NEW f \in Texts \ Optional, f = Required[k]
      PROVE  Filled(config', f)
  <2>1. f # "privateKey"
    BY DEF Texts, URLs, Prices, Optional
  <2>2. CASE config' = config /\ ~ needsInput(getFieldValue(config, Required[k]))
    BY <1>3, <2>1, <2>2 DEF needsInput, getFieldValue, Filled
  <2>3. ASSUME NEW v \in Answers, validAnswer(f, v), config' = setFieldValue(config, Required[k], v)
        PROVE  Filled(config', f)
    <3>1. v \in Value /\ v # "" /\ (v = "<x>" => f \notin URLs)
      BY <2>3, ConfigAssumption DEF validAnswer, isValidURL
    <3>2. setFieldValue(config, f, v).text[f] = v
      <4>1. config \in Config /\ f \in (Texts \ Optional) \cup {"privateKey"}
        BY <1>1
      <4> QED BY <2>1, <3>1, <4>1, FieldSet
    <3> QED BY <1>3, <2>3, <3>1, <3>2 DEF Filled
  <2> QED BY <1>1, <1>3, <2>2, <2>3
<1>4. ASSUME NEW f \in Texts \ Optional, f # Required[k]
      PROVE  config'.text[f] = config.text[f]
  <2>1. ASSUME NEW v \in Answers, config' = setFieldValue(config, Required[k], v)
        PROVE  config'.text[f] = config.text[f]
    <3>1. v \in Value
      BY ConfigAssumption
    <3>2. setFieldValue(config, Required[k], v).text[f] = config.text[f]
      <4>1. /\ config \in Config /\ Required[k] \in (Texts \ Optional) \cup {"privateKey"}
            /\ f \in Texts \ {Required[k]}
        BY <1>1, <1>4
      <4> QED BY <3>1, <4>1, FieldSet
    <3> QED BY <2>1, <3>2
  <2> QED BY <1>1, <2>1
<1>5. ASSUME NEW f \in Texts \ Optional
      PROVE  Filled(config', f) \/ \E i \in DOMAIN todo' : todo'[i] = f
  <2>1. CASE f = Required[k]
    BY <1>3, <2>1
  <2>2. CASE f # Required[k] /\ Filled(config, f)
    BY <1>4, <2>2 DEF Filled
  <2>3. CASE f # Required[k] /\ \E i \in DOMAIN todo : todo[i] = f
    <3>1. PICK i \in 1 .. 7 - k : Required[k + i - 1] = f
      <4>1. k \in 1 .. 7
        OBVIOUS
      <4>2. DOMAIN todo = 1 .. 7 - k /\ \A i \in 1 .. 7 - k : todo[i] = Required[k + i - 1]
        BY <1>1, <4>1, TodoIs
      <4> QED BY <2>3, <4>2
    <3>2. i # 1
      BY <2>3, <3>1
    <3>3. k + 1 \in 1 .. 7 /\ i - 1 \in 1 .. 7 - (k + 1) /\ (k + 1) + (i - 1) - 1 = k + i - 1
      BY <3>2
    <3>4. i - 1 \in DOMAIN todo' /\ todo'[i - 1] = f
      <4>1. PICK n \in 1 .. 7 : n = k + 1
        BY <3>3
      <4>2. PICK j \in 1 .. 7 - n : j = i - 1 /\ n + j - 1 = k + i - 1
        BY <3>3, <4>1
      <4>3. DOMAIN From(n) = 1 .. 7 - n /\ \A h \in 1 .. 7 - n : From(n)[h] = Required[n + h - 1]
        BY TodoIs
      <4>4. todo' = From(n)
        BY <1>1, <4>1
      <4>5. j \in DOMAIN todo' /\ todo'[j] = Required[k + i - 1]
        BY <4>2, <4>3, <4>4
      <4> QED BY <3>1, <4>2, <4>5
    <3> QED BY <3>4
  <2> QED BY <1>2, <2>1, <2>2, <2>3 DEF FieldsInv
<1> QED BY <1>2, <1>5 DEF FieldsInv

(* The fields of a run that begins are all to be looked at.                *)
LEMMA FieldsToDo ==
  ASSUME loadAndMergeConfigs
  PROVE  FieldsInv'
<1>1. todo' = Required
  BY DEF loadAndMergeConfigs
<1>2. \A f \in Texts \ Optional : \E i \in DOMAIN Required : Required[i] = f
  <2>1. DOMAIN Required = 1 .. 6
    BY DEF Required
  <2>2. /\ Required[1] = "servingUrl" /\ Required[2] = "targetUrl" /\ Required[3] = "inputPrice"
        /\ Required[4] = "outputPrice" /\ Required[5] = "model"
    BY DEF Required
  <2>3. \A f \in Texts \ Optional : f \in {"servingUrl", "targetUrl", "inputPrice", "outputPrice", "model"}
    BY DEF Texts, URLs, Prices
  <2> QED BY <2>1, <2>2, <2>3
<1> QED BY <1>1, <1>2 DEF FieldsInv

(* What a file that is saved looks like.                                   *)
Complete(c) == (\A f \in Texts \ Optional : Filled(c, f)) /\ Clean(c)
SavedInv == \A n \in ConfigNames : files[n] # None => Complete(files[n])

(* Files are saved when no field is left to be looked at, and cleaned up.  *)
LEMMA SavedKept ==
  ASSUME IInv, FieldsInv, SavedInv, [Next]_vars
  PROVE  FieldsInv' /\ SavedInv'
<1>1. ASSUME \A n \in ConfigNames : files'[n] = files[n]
      PROVE  SavedInv'
  BY <1>1 DEF SavedInv
<1>2. CASE checkAndPromptRequiredFields
  BY <1>1, <1>2, FieldFilled DEF checkAndPromptRequiredFields
<1>3. CASE loadAndMergeConfigs
  BY <1>1, <1>3, FieldsToDo DEF loadAndMergeConfigs
<1>4. CASE saveConfig
  <2>1. /\ name \in ConfigNames /\ config \in Config /\ todo = << >> /\ pc = "fields"
        /\ files'[name] = cleanupPlaceholderFields(config)
        /\ \A n \in ConfigNames \ {name} : files'[n] = files[n]
    BY <1>4, SaveKeeps
  <2>2. \A f \in Texts \ Optional : Filled(config, f)
    BY <2>1 DEF FieldsInv
  <2>3. Complete(files'[name])
    <3>1. PICK c : c = cleanupPlaceholderFields(config)
      OBVIOUS
    <3>2. config \in Config
      BY <2>1
    <3>3. Clean(c) /\ \A f \in Texts \ Optional : c.text[f] = config.text[f]
      BY <3>1, <3>2, CleanedUp
    <3>4. \A f \in Texts \ Optional : Filled(c, f)
      BY <2>2, <3>3 DEF Filled
    <3> QED BY <2>1, <3>1, <3>3, <3>4 DEF Complete
  <2>4. SavedInv'
    BY <2>1, <2>3 DEF SavedInv
  <2>5. pc' # "fields"
    BY <1>4 DEF saveConfig
  <2> QED BY <2>4, <2>5 DEF FieldsInv
<1>5. CASE generateDockerCompose
  BY <1>1, <1>5, ComposeKeeps DEF generateDockerCompose, FieldsInv
<1>6. CASE UNCHANGED vars
  BY <1>1, <1>6 DEF vars, wizard, FieldsInv
<1>7. CASE ComposeUp \/ \E s \in AllServices : Docker(s)
  BY <1>1, <1>7, DeployKeeps DEF FieldsInv
<1>8. CASE promptOutputDirectory \/ promptEnvironmentConfig \/ promptPortConfiguration \/ generateEnvFile \/ Abort
  <2>1. pc' # "fields" /\ files' = files
    BY <1>8 DEF promptOutputDirectory, promptEnvironmentConfig, promptPortConfiguration, generateEnvFile, Abort, Exit
  <2> QED BY <1>1, <2>1 DEF FieldsInv
<1> QED BY <1>2, <1>3, <1>4, <1>5, <1>6, <1>7, <1>8 DEF Next

(* checkAndPromptRequiredFields, cleanupPlaceholderFields: whatever the    *)
(* operator's files and answers are, no required text that is saved is     *)
(* missing or an untouched placeholder of the base file, and no optional   *)
(* text and no key is a placeholder; the key itself may be missing, and a  *)
(* text like YOUR_X is left where it was required.                         *)
THEOREM WhatIsSavedIsFilledIn == Spec => []SavedIsFilledIn
<1>1. Init => FieldsInv /\ SavedInv
  BY DEF Init, FieldsInv, SavedInv, Paths
<1>2. IInv /\ FieldsInv /\ SavedInv /\ [Next]_vars => FieldsInv' /\ SavedInv'
  BY SavedKept
<1>3. ASSUME IInv, SavedInv PROVE SavedIsFilledIn
  <2> SUFFICES ASSUME NEW n \in ConfigNames, files[n] # None
      PROVE /\ \A f \in Texts \ Optional :
                 files[n].text[f] # "" /\ (files[n].text[f] = "<x>" => "<x>" \in Answers /\ f \notin URLs)
            /\ \A f \in Optional : ~ isPlaceholder(files[n].text[f])
            /\ \A w \in Range(files[n].networks) \ {None} :
                 /\ \A i \in DOMAIN w.keys : ~ isPlaceholder(w.keys[i])
                 /\ w.url # "" \/ w.keys # << >>
    BY DEF SavedIsFilledIn
  <2>1. Complete(files[n])
    BY <1>3 DEF SavedInv
  <2>2. files[n] \in Config
    BY <1>3 DEF IInv, TypeOK, OrNone
  <2>3. Range(files[n].networks) = {files[n].networks[m] : m \in Networks}
    BY <2>2, ConfigIs DEF Range
  <2>4. ASSUME NEW w \in Range(files[n].networks) \ {None} PROVE CleanIs(w)
    BY <2>1, <2>3 DEF Complete, Clean
  <2> QED BY <2>1, <2>4 DEF Complete, Clean, Filled, CleanIs
<1> QED BY <1>1, <1>2, <1>3, Invariance, PTL DEF Spec
==============================================================================
