-------------------------- MODULE MCAutomationTabs --------------------------
(* AutomationTabs for TLC. *)
EXTENDS AutomationTabs

=============================================================================
