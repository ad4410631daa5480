-------------------------------- MODULE Batch --------------------------------
(***************************************************************************)
(* The write-ahead batch format of                                         *)
(* src/internal/component/prometheus/remotewrite/batch/batch.go.  A batch  *)
(* collects samples (AddMetric), interning every label name and value in a *)
(* string dictionary and remembering, per metric name, the set of label    *)
(* name ids its series use.  Serialize writes the dictionary and then one  *)
(* group per timestamp: the group's label name ids, then for every sample  *)
(* the value id of each of those labels (0 for none) and the sample value. *)
(* Deserialize reads it back.                                              *)
(*                                                                         *)
(* The byte stream is modelled as a sequence of tokens, one per addUint,   *)
(* addInt, addUInt64 or string written: the little-endian encoding of one  *)
(* fixed-width integer is read back by the matching read call, so what the *)
(* format can get wrong is which tokens are written, in which order and    *)
(* how many the reader expects.                                            *)
(***************************************************************************)
EXTENDS Naturals, Sequences, SequencesExt, FiniteSets

CONSTANTS
    NameLabel,  \* the label name "__name__"
    Lbls,       \* the label lists AddMetric may be called with
    Ts,         \* sample timestamps
    Val,        \* sample values
    TSample,    \* the series type tSample
    Stamp,      \* time.Now().UTC().Unix() at Serialize
    MaxAge,     \* maxAgeSeconds of Deserialize
    MaxMetrics  \* bound on samples per batch

\* Every label list names its metric (the __name__ label), as Prometheus
\* series do; AddMetric takes the first __name__ label it meets.
ASSUME BatchAssumption ==
    /\ \A l \in Lbls : \E i \in DOMAIN l : l[i][1] = NameLabel
    /\ Stamp \in Nat /\ MaxAge \in Nat /\ MaxMetrics \in Nat

VARIABLES
    reverseDict,      \* l.reverseDict: id i is reverseDict[i]; l.index - 1 = Len
    metricNameLabels, \* l.metricNameLabels: metric name -> label name ids
    pms,              \* the prepocessedmetrics in AddMetric order; l.timestamps
                      \* and l.preprocessedMetrics are views of it
    added,            \* history: the samples added since the last Reset
    buf,              \* the buffer Serialize last wrote, <<>> if none
    sent              \* history: the samples the batch held at that Serialize

vars == <<reverseDict, metricNameLabels, pms, added, buf, sent>>

none_index == 0

\* Every string a label list can carry.
Strings == UNION {UNION {{l[i][1], l[i][2]} : i \in DOMAIN l} : l \in Lbls}

\* The metric name of a label list: the value of its first __name__ label.
MetricNameOf(lbls) ==
    lbls[CHOOSE i \in DOMAIN lbls :
            /\ lbls[i][1] = NameLabel
            /\ \A j \in 1..i-1 : lbls[j][1] # NameLabel][2]

\* addOrGetID: a string not yet in the dictionary gets the next id.
AddOrGetID(d, s) == IF s \in ToSet(d) THEN d ELSE Append(d, s)

\* The id of string s in dictionary d.
IdOf(d, s) == CHOOSE i \in DOMAIN d : d[i] = s

\* The timestamp groups: l.timestamps[ts] lists the samples of ts in the
\* order they were added.
TsGroup(ts) == SelectSeq(pms, LAMBDA pm : pm.ts = ts)
Timestamps == {pms[i].ts : i \in DOMAIN pms}

\* A sample as the caller sees it: timestamp, label pairs and value.
Sample(ts, lbls, val) == [ts |-> ts, lbls |-> ToSet(lbls), val |-> val]

-----------------------------------------------------------------------------
\* Init: newBatch; index 0 is reserved for the none value.
Init ==
    /\ reverseDict = <<>>
    /\ metricNameLabels = [n \in {} |-> {}]
    /\ pms = <<>>
    /\ added = <<>>
    /\ buf = <<>>
    /\ sent = <<>>

\* AddMetric(lbls, ts, val): find the name, intern every label name and
\* value (name first), record the label name ids for the metric name and
\* append the sample to its name's and its timestamp's lists.
AddMetric(lbls, ts, val) ==
    LET name == MetricNameOf(lbls)
        d    == FoldLeft(AddOrGetID, reverseDict, FlattenSeq(lbls))
        keys == [x \in DOMAIN lbls |-> IdOf(d, lbls[x][1])]
        vals == [x \in DOMAIN lbls |-> IdOf(d, lbls[x][2])]
        old  == IF name \in DOMAIN metricNameLabels
                  THEN metricNameLabels[name] ELSE {}
    IN
    /\ Len(pms) < MaxMetrics
    /\ reverseDict' = d
    /\ metricNameLabels' =
           [n \in DOMAIN metricNameLabels \cup {name} |->
               IF n = name THEN old \cup ToSet(keys) ELSE metricNameLabels[n]]
    /\ pms' = Append(pms, [ts |-> ts, name |-> name, keys |-> keys,
                           values |-> vals, val |-> val])
    /\ added' = Append(added, Sample(ts, lbls, val))
    /\ UNCHANGED <<buf, sent>>

\* Mutant: Reset forgets to clear the per-name and per-timestamp lists.
ResetKeepsMetrics ==
    /\ reverseDict' = <<>>
    /\ metricNameLabels' = [n \in {} |-> {}]
    /\ added' = <<>>
    /\ UNCHANGED <<pms, buf, sent>>

\* Reset: the batch goes back to the pool empty, ids restart at 1.
Reset ==
    /\ reverseDict' = <<>>
    /\ metricNameLabels' = [n \in {} |-> {}]
    /\ pms' = <<>>
    /\ added' = <<>>
    /\ UNCHANGED <<buf, sent>>

\* Mutant: values taken by position, as if every series listed the family's
\* labels in the same order.
AlignByPosition(total, keys, values) ==
    [i \in DOMAIN total |-> IF i \in DOMAIN values THEN values[i] ELSE none_index]

\* alignAndEncodeLabel: for each label name id of total, the value id the
\* series has for it, or none_index.
AlignAndEncodeLabel(total, keys, values) ==
    [i \in DOMAIN total |->
        IF \E x \in DOMAIN keys : keys[x] = total[i]
          THEN values[CHOOSE x \in DOMAIN keys :
                          /\ keys[x] = total[i]
                          /\ \A y \in 1..x-1 : keys[y] # total[i]]
          ELSE none_index]

LessThan(a, b) == a < b

\* The tokens of one timestamp group: the label set is that of the metric
\* name of the group's first sample.
SerializeGroup(ts) ==
    LET metrics == TsGroup(ts)
        family  == SetToSortSeq(metricNameLabels[metrics[1].name], LessThan)
        series(s) == <<TSample>>
                     \o AlignAndEncodeLabel(family, s.keys, s.values)
                     \o <<s.val>>
    IN  <<ts, Len(metrics), Len(family)>> \o family
        \o FlattenSeq([k \in DOMAIN metrics |-> series(metrics[k])])

\* Serialize: version, time stamp, dictionary, then the timestamp groups in
\* the (unspecified) order a Go map is ranged over.
SerializeWith(order) ==
    <<1, Stamp, Len(reverseDict)>> \o reverseDict \o <<Len(order)>>
        \o FlattenSeq([k \in DOMAIN order |-> SerializeGroup(order[k])])

Serialize ==
    /\ \E order \in SetToSeqs(Timestamps) : buf' = SerializeWith(order)
    /\ sent' = added
    /\ UNCHANGED <<reverseDict, metricNameLabels, pms, added>>

-----------------------------------------------------------------------------
(* Deserialize, as a pure function of the buffer.                          *)

\* deserializeMetric: the sample starting at token p of a group whose label
\* names are names; a none id is skipped.
DeserializeMetric(w, p, ts, names, dict) ==
    [ts   |-> ts,
     type |-> w[p],
     lbls |-> {<<names[i], dict[w[p + i]]>> :
                  i \in {j \in DOMAIN names : w[p + j] # none_index}},
     val  |-> w[p + Len(names) + 1]]

\* The samples of the k timestamp groups starting at token pos.
RECURSIVE ReadGroups(_, _, _, _)
ReadGroups(w, pos, k, dict) ==
    IF k = 0 THEN <<>>
    ELSE LET ts    == w[pos]
             count == w[pos + 1]
             names == [j \in 1..w[pos + 2] |-> dict[w[pos + 2 + j]]]
             first == pos + 3 + Len(names)
             width == Len(names) + 2
         IN  [j \in 1..count |->
                 DeserializeMetric(w, first + (j - 1) * width, ts, names, dict)]
             \o ReadGroups(w, first + count * width, k - 1, dict)

\* Deserialize(bb, maxAgeSeconds) at time utcNow: an error for a wrong
\* version or a stale stamp, else the samples.
Deserialize(w, maxAge, utcNow) ==
    IF w[1] # 1 THEN [err |-> "version", metrics |-> <<>>]
    ELSE IF utcNow - w[2] > maxAge THEN [err |-> "ttl", metrics |-> <<>>]
    ELSE LET total == w[3]
             dict  == SubSeq(w, 4, 3 + total)
         IN  [err |-> "none",
              metrics |-> ReadGroups(w, 5 + total, w[4 + total], dict)]

-----------------------------------------------------------------------------
Next ==
    \/ \E l \in Lbls, ts \in Ts, v \in Val : AddMetric(l, ts, v)
    \/ Reset
    \/ Serialize

Spec == Init /\ [][Next]_vars

-----------------------------------------------------------------------------
(* Properties.                                                             *)

TypeOK ==
    /\ reverseDict \in Seq(Strings)
    /\ pms \in Seq([ts : Ts, name : {MetricNameOf(l) : l \in Lbls},
                    keys : Seq(Nat), values : Seq(Nat), val : Val])
    /\ Len(pms) <= MaxMetrics
    /\ Len(added) = Len(pms)
    /\ buf \in Seq(Nat \cup Val \cup {TSample} \cup Strings)

\* The samples read back from the last buffer, as the caller sees them.
Decoded ==
    LET ms == Deserialize(buf, MaxAge, Stamp).metrics
    IN  [k \in DOMAIN ms |-> [ts |-> ms[k].ts, lbls |-> ms[k].lbls,
                              val |-> ms[k].val]]

\* The label pairs of a sample without its name.
NameOfSample(s) == CHOOSE v \in {p[2] : p \in s.lbls} : <<NameLabel, v>> \in s.lbls

\* Serialize/Deserialize never attribute a label to the wrong series: every
\* sample read back has the timestamp, name and value of a sample that was
\* written, and only labels that sample had, whatever the mix of metric
\* names sharing a timestamp and the dictionary ids AddMetric handed out.
NoLabelMisattributed ==
    buf # <<>> =>
        /\ Len(Decoded) = Len(sent)
        /\ \A k \in DOMAIN Decoded : \E s \in ToSet(sent) :
              /\ s.ts = Decoded[k].ts
              /\ s.val = Decoded[k].val
              /\ <<NameLabel, NameOfSample(s)>> \in Decoded[k].lbls
              /\ Decoded[k].lbls \subseteq s.lbls

\* The batch is a faithful write-ahead record: Deserialize of what
\* Serialize wrote gives back exactly the samples that were added, each
\* with all of its labels (as a multiset; groups come in any order).
RoundTrip ==
    buf # <<>> => ToBag(Decoded) = ToBag(sent)

=============================================================================
