-------------------------- MODULE MCSandboxReconcile --------------------------
(***************************************************************************)
(* Small instances of SandboxReconcile.                                    *)
(***************************************************************************)
EXTENDS SandboxReconcile, TLC

CONSTANTS i1, i2, s1, n1, n2, p1, p2, v1

Doc(sec, net) == [sec |-> sec, net |-> net, valid |-> TRUE]

\* A policy that only differs in its mutable sections, one that adds an
\* immutable section, and one the gateway's parser rejects.
MCDocs == {Doc(None, n1), Doc(None, n2), Doc(s1, n2),
           [Doc(None, n1) EXCEPT !.valid = FALSE]}
MCSecDocs == {Doc(None, n1), Doc(s1, n2)}

Plain(image, source) ==
  [image |-> image, source |-> source, inline |-> None, providers |-> {},
   volumes |-> {}, validVolumes |-> TRUE, retention |-> "Retain"]

\* Edits of the image, the providers, the volumes and the policy source.
EditedSpecs ==
  {[Plain(i1, "ref") EXCEPT !.providers = {p1}],
   [Plain(i1, "ref") EXCEPT !.providers = {p2}],
   [Plain(i2, "ref") EXCEPT !.volumes = {v1}],
   [Plain(i2, "inline") EXCEPT !.inline = Doc(s1, n2)],
   [Plain(i2, "conflict") EXCEPT !.inline = Doc(s1, n1)]}

VolumeSpec(image, source, retention) ==
  [Plain(image, source) EXCEPT !.volumes = {v1}, !.retention = retention]
FaultySpecs ==
  {[VolumeSpec(i1, "ref", "Retain") EXCEPT !.providers = {p1}],
   VolumeSpec(i2, "ref", "Retain"),
   [VolumeSpec(i1, "none", "Retain") EXCEPT !.validVolumes = FALSE]}
DeleteSpecs == {VolumeSpec(i1, "none", "Delete"), Plain(i2, "none")}

PlainSpecs == {Plain(i1, "none"), Plain(i2, "none")}
NoDocs == {}
NoPairs == {}
OnePair == {<<n2, n1>>}
===============================================================================
