------------------------------ MODULE MCJobQueue ------------------------------
(***************************************************************************)
(* Instances of JobQueue for TLC.  Jobs, devices and budgets are numbers;  *)
(* agents and calls are model values.                                      *)
(***************************************************************************)
EXTENDS JobQueue

CONSTANTS service, agent, worker, nobody

\* The roles of the three agents; an instance may leave one out.
RoleOf == [a \in Agents |-> CASE a = service -> "device_service"
                              [] a = agent -> "device_agent"
                              [] OTHER -> "signing_worker"]

\* A refresh and an install of one device.
DeviceTypes == <<"refresh", "install">>
DeviceDevices == <<1, 1>>
DeviceBudgets == <<2, 1>>

\* Two installs of one device.
InstallTypes == <<"install", "install">>
InstallDevices == <<1, 1>>
InstallBudgets == <<1, 1>>

\* A single install.
OneInstallType == <<"install">>
OneInstallDevice == <<1>>
OneInstallBudget == <<1>>
===============================================================================
