------------------------------ MODULE VulnRules ------------------------------
(***************************************************************************)
(* The offline vulnerability rules (services/vuln.py) and the aggregation  *)
(* of findings into the risk of a device (enrich_devices).                 *)
(*                                                                         *)
(* A port found open is [port, cves]: its number, and the signatures whose *)
(* needle its banner and version contain.                                  *)
(***************************************************************************)
EXTENDS Naturals, FiniteSets, FiniteSetsExt, TLC

CONSTANTS
  CveFile,      \* severity of each signature of cve_signatures.json; empty when it cannot be read
  NoCve         \* the cve_id of a finding of an exposure rule (NULL)

Severities == {"info", "low", "medium", "high", "critical"}

ASSUME CveFileAssumption == \A c \in DOMAIN CveFile : CveFile[c] \in Severities

SeverityRank == [info |-> 0, low |-> 1, medium |-> 2, high |-> 3, critical |-> 4]

\* A new port among these is an event of medium severity.
SensitivePorts == {21, 22, 23, 3389, 445, 3306, 5432, 6379, 1433, 27017, 5900}

\* A service that is a risk by being reachable: the severity by port.
ExposureRules ==
  LET high == {23, 3389, 5900, 5901, 3306, 5432, 1433, 27017, 9200, 11211}
      medium == {21, 445, 161}
      low == {80, 9100}
  IN  [p \in high \cup medium \cup low \cup {6379} |->
         IF p \in high THEN "high" ELSE IF p \in medium THEN "medium"
         ELSE IF p \in low THEN "low" ELSE "critical"]

\* The file when it has rows, the two embedded signatures otherwise.
CveDb == IF DOMAIN CveFile # {} THEN CveFile
         ELSE [c \in {"CVE-2011-2523", "CVE-2021-41773"} |-> "critical"]

\* The findings for the ports of one device.
Evaluate(ports) ==
  UNION {   {[port |-> p.port, cve |-> NoCve, severity |-> ExposureRules[n]] :
               n \in {p.port} \cap DOMAIN ExposureRules}
       \cup {[port |-> p.port, cve |-> c, severity |-> CveDb[c]] :
               c \in p.cves \cap DOMAIN CveDb} : p \in ports}

RiskFromSeverities(severities) ==
  LET top == Max({SeverityRank[s] : s \in severities})
  IN  IF severities = {} THEN "safe"
      ELSE IF top >= SeverityRank.critical THEN "critical"
      ELSE IF top >= SeverityRank.medium THEN "vulnerable"
      ELSE "safe"

\* The risk that the device list shows, from the stored findings of a device.
Risk(vulns) == RiskFromSeverities({v.severity : v \in vulns})
=============================================================================
