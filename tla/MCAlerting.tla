----------------------------- MODULE MCAlerting -----------------------------
(***************************************************************************)
(* Instances of Alerting for TLC.  The cfg files give the small sets; the  *)
(* definitions here are the values a cfg cannot write.                     *)
(***************************************************************************)
EXTENDS Alerting, TLC

CONSTANTS h1, h2, s1, s2, m1, m2, i1, i2, i3, i4, i5, i6, i7, i8

\* What a sample exceeds, and which anomalies are reported together.
NoReadings == {}
CoolOrHot == {{}, {"cpu", "mem"}}
NoVerdicts == {}
CpuVerdicts == {{}, {"cpu_anomaly"}}

\* Requests are interchangeable when only safety is checked.
HandlerSymmetry == Permutations(Handlers)
=============================================================================
