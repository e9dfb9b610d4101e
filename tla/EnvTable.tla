------------------------------ MODULE EnvTable ------------------------------
(***************************************************************************)
(* The environment: the hash table of lib/hashtable.c (open addressing      *)
(* with double hashing, deleted entries are marked), the commands that      *)
(* change it (common/cmd_nvedit.c, common/env_common.c) and the copy that   *)
(* saveenv keeps in NAND (common/env_nand.c, without redundancy, as this    *)
(* board configures it).                                                    *)
(*                                                                          *)
(* A name is a number, its rank in the order of strcmp; HashOf gives the    *)
(* value the loop over its characters computes.  A value is Empty or any    *)
(* other.  Whether env_flags_validate and the callback of a variable accept *)
(* a change is a choice.  Running out of memory is not modelled.            *)
(***************************************************************************)
EXTENDS Integers, Sequences, FiniteSets, FiniteSetsExt

CONSTANTS Keys,      \* the names of variables
          Values,    \* the values of variables
          Empty,     \* the member of Values without characters
          Unset,     \* stands for a variable that does not exist
          NoCopy,    \* the flash has no environment with a good checksum
          HashOf,    \* the hash of a name before it is reduced to the table
          Nels,      \* numbers of entries a table may be created for
          Default,   \* default_environment: a sequence of entries
          EnvRoom,   \* the number of variables that fit into ENV_SIZE
          MaxImport  \* bound: the entries of one `env import'

ASSUME KeysAssumption == Keys \subseteq Nat \ {0}
ASSUME ValuesAssumption == Empty \in Values /\ Unset \notin Values
ASSUME HashAssumption == HashOf \in [Keys -> Nat]
\* himport_r asks for at least CONFIG_ENV_MIN_ENTRIES, 128 on this board.
ASSUME NelsAssumption == Nels \subseteq Nat \ (0..3) /\ EnvRoom \in Nat /\ MaxImport \in Nat

Entry == [key : Keys, data : Values]
ASSUME DefaultAssumption == Default \in Seq(Entry) /\ NoCopy \notin Seq(Entry)

VARIABLES size,      \* htab->size
          filled,    \* htab->filled
          used,      \* used[i]: 0 never used, -1 deleted, else the first hash of the key
          key,       \* key[i], data[i]: the entry, when used[i] > 0
          data,
          pc,        \* what U-Boot is doing
          todo,      \* himport_r: the entries not yet parsed
          listed,    \* himport_r: nvars is not zero
          vars,      \* himport_r: localvars, the listed variables not met so far
          flash,     \* the environment in NAND: exported entries, or NoCopy
          refused    \* history: the variables whose entries were refused since power was turned on,
                     \* up to the first command

table == <<size, filled, used, key, data>>
importing == <<todo, listed, vars, refused>>
allvars == <<table, pc, importing, flash>>

NoKey == 0
Deleted == -1
Index == 1..size

(***************************************************************************)
(* Creating a table (hcreate_r).                                           *)
(***************************************************************************)
\* The trial division of isprime, which starts with 3 and is meant for odd numbers.
IsPrime(n) ==
  LET Stops(d) == d * d >= n \/ n % d = 0
      div == CHOOSE d \in 3..(n + 3) :
               d % 2 = 1 /\ Stops(d) /\ \A c \in 3..(d - 1) : c % 2 = 1 => ~Stops(c)
  IN n % div # 0

\* Mutant: the number asked for is not made odd first.
TableSizeEven(nel) == Min({s \in nel..(2 * nel + 3) : (s - nel) % 2 = 0 /\ IsPrime(s)})

TableSize(nel) ==
  LET odd == IF nel % 2 = 0 THEN nel + 1 ELSE nel
  IN Min({s \in odd..(2 * odd) : (s - odd) % 2 = 0 /\ IsPrime(s)})

\* There is a prime between a number and its double, so the search for one ends.
ASSUME SizeAssumption == \A nel \in Nels : \E s \in nel..(2 * nel) : s % 2 = 1 /\ IsPrime(s)

HcreateR(nel) ==
  LET s == TableSize(nel) IN
  /\ size' = s
  /\ filled' = 0
  /\ used' = [i \in 1..s |-> 0]
  /\ key' = [i \in 1..s |-> NoKey]
  /\ data' = [i \in 1..s |-> Unset]

(***************************************************************************)
(* Searching (hsearch_r).  The first index is the hash; the second hash is *)
(* the distance to the next one.                                           *)
(***************************************************************************)
Hval(k) == IF HashOf[k] % size = 0 THEN 1 ELSE HashOf[k] % size

Step(h, i) == LET hval2 == 1 + (h % (size - 2))
              IN IF i <= hval2 THEN size + i - hval2 ELSE i - hval2

\* The indices in the order in which they are tried.
Probe(h) == LET p[n \in 0..size] == IF n = 0 THEN h ELSE Step(h, p[n - 1]) IN p

\* The number of indices looked at before the search ends: at a bucket that was never
\* used, or back at the first index.
Stop(h) == LET p == Probe(h)
           IN Min({n \in 0..size : used[p[n]] = 0 \/ (n > 0 /\ p[n] = h)} \cup {size})

\* _compare_and_overwrite_entry: the hash is compared before the key.
Matches(k, i) == used[i] = Hval(k) /\ key[i] = k

\* The index of the entry of a key, 0 when there is none.
Find(k) ==
  LET p == Probe(Hval(k))
      hits == {n \in 0..(Stop(Hval(k)) - 1) : Matches(k, p[n])}
  IN IF hits = {} THEN 0 ELSE p[Min(hits)]

\* Mutant: the index of the search is forgotten.
BucketFirst(k) == Hval(k)

\* The bucket a new entry gets.  first_deleted is only ever set to the first index.
Bucket(k) == IF used[Hval(k)] = Deleted THEN Hval(k) ELSE Probe(Hval(k))[Stop(Hval(k))]

(***************************************************************************)
(* Changing the table.  ok says whether change_ok and the callback of the  *)
(* variable accept the change.                                             *)
(***************************************************************************)
\* Mutant: the bucket is freed, not marked.
DeleteFree(i, count) ==
  /\ used' = [used EXCEPT ![i] = 0]
  /\ key' = [key EXCEPT ![i] = NoKey]
  /\ data' = [data EXCEPT ![i] = Unset]
  /\ filled' = count - 1
  /\ UNCHANGED size

\* Mutant: the entry is not taken from the count.
DeleteUncounted(i, count) ==
  /\ used' = [used EXCEPT ![i] = Deleted]
  /\ key' = [key EXCEPT ![i] = NoKey]
  /\ data' = [data EXCEPT ![i] = Unset]
  /\ filled' = count
  /\ UNCHANGED size

\* _hdelete
Delete(i, count) ==
  /\ used' = [used EXCEPT ![i] = Deleted]
  /\ key' = [key EXCEPT ![i] = NoKey]
  /\ data' = [data EXCEPT ![i] = Unset]
  /\ filled' = count - 1
  /\ UNCHANGED size

\* Mutant: a full table is not noticed.
EnterUnchecked(k, v, ok) ==
  IF Find(k) # 0
  THEN /\ data' = IF ok THEN [data EXCEPT ![Find(k)] = v] ELSE data
       /\ UNCHANGED <<size, filled, used, key>>
  ELSE IF ok
  THEN /\ used' = [used EXCEPT ![Bucket(k)] = Hval(k)]
       /\ key' = [key EXCEPT ![Bucket(k)] = k]
       /\ data' = [data EXCEPT ![Bucket(k)] = v]
       /\ filled' = filled + 1
       /\ UNCHANGED size
  ELSE Delete(Bucket(k), filled + 1)

\* hsearch_r with ENTER.  An entry that is created and then not accepted is deleted again.
Enter(k, v, ok) ==
  IF Find(k) # 0
  THEN /\ data' = IF ok THEN [data EXCEPT ![Find(k)] = v] ELSE data
       /\ UNCHANGED <<size, filled, used, key>>
  ELSE IF filled = size
  THEN UNCHANGED table
  ELSE IF ok
  THEN /\ used' = [used EXCEPT ![Bucket(k)] = Hval(k)]
       /\ key' = [key EXCEPT ![Bucket(k)] = k]
       /\ data' = [data EXCEPT ![Bucket(k)] = v]
       /\ filled' = filled + 1
       /\ UNCHANGED size
  ELSE Delete(Bucket(k), filled + 1)

HdeleteR(k, ok) == IF Find(k) # 0 /\ ok THEN Delete(Find(k), filled) ELSE UNCHANGED table

(***************************************************************************)
(* Import and export.                                                      *)
(***************************************************************************)
Live == {i \in Index : used[i] > 0}

\* A set of entries, no two with one key, as a sequence in the order of the keys (qsort).
Sorted(es) == CHOOSE s \in [1..Cardinality(es) -> es] :
                \A m, n \in DOMAIN s : m < n => s[m].key < s[n].key

\* Mutant: the last bucket is left out, as in hmatch_r.
ExportedShort == Sorted({[key |-> key[i], data |-> data[i]] : i \in Live \ {size}})

\* hexport_r: all entries in the order of their keys.
Exported == Sorted({[key |-> key[i], data |-> data[i]] : i \in Live})

\* The beginning of himport_r, up to the loop.
ImportStart(es, keep, only) ==
  /\ todo' = es
  /\ listed' = (only # {})
  /\ vars' = only
  /\ refused' = {}
  /\ IF keep THEN UNCHANGED table ELSE \E nel \in Nels : HcreateR(nel)

\* One turn of the loop.  An entry without a value deletes the variable.
ImportEntry(at) ==
  /\ pc = at
  /\ todo # <<>>
  /\ todo' = Tail(todo)
  /\ LET e == Head(todo) IN
     IF listed /\ e.key \notin vars
     THEN UNCHANGED <<table, vars, refused>>
     ELSE /\ vars' = vars \ {e.key}
          /\ \E ok \in BOOLEAN :
               /\ IF e.data = Empty THEN HdeleteR(e.key, ok) ELSE Enter(e.key, e.data, ok)
               /\ refused' = IF ok \/ at # "boot" THEN refused ELSE refused \cup {e.key}
  /\ UNCHANGED <<pc, listed, flash>>

\* Listed variables that were not in the imported data are deleted.
ImportRest ==
  /\ pc = "import"
  /\ todo = <<>>
  /\ \E k \in vars, ok \in BOOLEAN :
       /\ vars' = vars \ {k}
       /\ HdeleteR(k, ok)
  /\ UNCHANGED <<pc, todo, listed, refused, flash>>

ImportDone(at, next) ==
  /\ pc = at
  /\ todo = <<>>
  /\ vars = {}
  /\ pc' = next
  /\ listed' = FALSE
  /\ UNCHANGED <<table, todo, vars, refused, flash>>

(***************************************************************************)
(* Commands.  After booting, pc is "up" until the first command.           *)
(***************************************************************************)
Prompt == pc \in {"up", "shell"}

\* _do_env_set with a value, also the empty one.
EnvSet(k, v) == /\ Prompt
                /\ \E ok \in BOOLEAN : Enter(k, v, ok)
                /\ pc' = "shell"
                /\ refused' = {}
                /\ UNCHANGED <<todo, listed, vars, flash>>

\* setenv with no value and `env delete'.
EnvDelete(k) == /\ Prompt
                /\ \E ok \in BOOLEAN : HdeleteR(k, ok)
                /\ pc' = "shell"
                /\ refused' = {}
                /\ UNCHANGED <<todo, listed, vars, flash>>

\* env import [-d]
EnvImport(es, keep) == /\ Prompt
                       /\ ImportStart(es, keep, {})
                       /\ pc' = "import"
                       /\ UNCHANGED flash

\* set_default_env
EnvDefaultAll == /\ Prompt
                 /\ ImportStart(Default, FALSE, {})
                 /\ pc' = "import"
                 /\ UNCHANGED flash

\* set_default_vars
EnvDefaultVars(only) == /\ Prompt
                        /\ ImportStart(Default, TRUE, only)
                        /\ pc' = "import"
                        /\ UNCHANGED flash

\* saveenv up to the erasure, which is not begun when the environment does not fit, and which
\* may fail at its first or at a later eraseblock.
SaveErase == /\ Prompt
             /\ Cardinality(Live) <= EnvRoom
             /\ \/ flash' = NoCopy /\ pc' = "write"
                \/ flash' \in {flash, NoCopy} /\ pc' = "shell"
             /\ refused' = {}
             /\ UNCHANGED <<table, todo, listed, vars>>

\* writeenv, which may fail.
SaveWrite == /\ pc = "write"
             /\ flash' \in {Exported, NoCopy}
             /\ pc' = "shell"
             /\ UNCHANGED <<table, importing>>

PowerCut == /\ pc # "off"
            /\ pc' = "off"
            /\ size' = 0
            /\ filled' = 0
            /\ used' = <<>>
            /\ key' = <<>>
            /\ data' = <<>>
            /\ todo' = <<>>
            /\ listed' = FALSE
            /\ vars' = {}
            /\ refused' = {}
            /\ UNCHANGED flash

\* env_relocate_spec and env_import: what is read is imported if its checksum is good.
EnvRelocate == /\ pc = "off"
               /\ ImportStart(IF flash = NoCopy THEN Default ELSE flash, FALSE, {})
               /\ pc' = "boot"
               /\ UNCHANGED flash

BoundedImports == UNION {[1..n -> Entry] : n \in 1..MaxImport}

Init == /\ pc = "off"
        /\ size = 0 /\ filled = 0
        /\ used = <<>> /\ key = <<>> /\ data = <<>>
        /\ todo = <<>> /\ listed = FALSE /\ vars = {} /\ refused = {}
        /\ flash = NoCopy

Next == \/ EnvRelocate
        \/ ImportEntry("boot") \/ ImportDone("boot", "up")
        \/ \E k \in Keys, v \in Values : EnvSet(k, v)
        \/ \E k \in Keys : EnvDelete(k)
        \/ \E es \in BoundedImports, keep \in BOOLEAN : EnvImport(es, keep)
        \/ EnvDefaultAll
        \/ \E only \in SUBSET Keys \ {{}} : EnvDefaultVars(only)
        \/ ImportEntry("import") \/ ImportRest \/ ImportDone("import", "shell")
        \/ SaveErase
        \/ SaveWrite
        \/ PowerCut

Spec == Init /\ [][Next]_allvars

-----------------------------------------------------------------------------
(***************************************************************************)
(* Properties.                                                             *)
(***************************************************************************)
\* Types of the state; htab->filled never exceeds the size of the table.
TypeOK == /\ size \in Nat
          /\ filled \in 0..size
          /\ used \in [Index -> -1..size]
          /\ key \in [Index -> Keys \cup {NoKey}]
          /\ data \in [Index -> Values \cup {Unset}]
          /\ pc \in {"off", "boot", "up", "shell", "import", "write"}
          /\ todo \in Seq(Entry)
          /\ listed \in BOOLEAN
          /\ vars \subseteq Keys
          /\ flash \in Seq(Entry) \cup {NoCopy}
          /\ refused \subseteq Keys

\* The map that printenv and saveenv show.
Content == [k \in Keys |-> IF \E i \in Live : key[i] = k
                           THEN data[CHOOSE i \in Live : key[i] = k] ELSE Unset]

\* What a sequence of entries stands for: the last entry of a variable counts, and an entry
\* without a value is no variable.
Meaning(es) ==
  [k \in Keys |-> LET at == {n \in DOMAIN es : es[n].key = k}
                  IN IF at = {} \/ es[Max(at)].data = Empty THEN Unset ELSE es[Max(at)].data]

\* What getenv finds is what printenv and saveenv list: after any sequence of insertions,
\* deletions and refused changes a search from the hash of a variable ends at its only entry,
\* and every entry is reached by the search for its own name.
FindsExported ==
  pc # "off" => \A k \in Keys : {i \in Live : key[i] = k} = {Find(k)} \ {0}

\* A bucket that was never used is left in the table.
EmptyBucket == \E i \in Index : used[i] = 0

\* htab->filled, which decides when a new entry is refused, counts the entries, as long as
\* deletions have not used up the empty buckets.
FilledCounts == EmptyBucket => filled = Cardinality(Live)

\* The probe sequence of every hash visits every bucket: the sizes hcreate_r chooses have no
\* divisor in common with any second hash.
ProbesAll == \A h \in 1..(size - 1) : {Probe(h)[n] : n \in 0..(size - 1)} = Index

\* Booting gives the environment that was saved last, or the default one if no save has
\* completed since the flash was erased; only what was refused may differ.
BootRestores ==
  pc = "up" => \A k \in Keys \ refused :
                 Content[k] = Meaning(IF flash = NoCopy THEN Default ELSE flash)[k]

\* The map the copy on the flash stands for.
Saved == IF flash = NoCopy THEN NoCopy ELSE Meaning(flash)

Abs == INSTANCE EnvStore WITH env <- Content, saved <- Saved

\* While a bucket that was never used is left, each step of the table is one of the map: it
\* changes one variable, and no other variable is lost or altered with it.
ImplementsEnvStore ==
  [][EmptyBucket' \/ size' = 0 => [Abs!Next]_<<Content, Saved>>]_allvars

\* No step changes two variables, unless it discards the whole table; also when deletions have
\* used up the empty buckets (the comment in hsearch_r says that a full table is an error).
OneAtATime ==
  [][(\E j, k \in Keys : j # k /\ Content'[j] # Content[j] /\ Content'[k] # Content[k])
       => \A k \in Keys : Content'[k] = Unset]_allvars
=============================================================================
