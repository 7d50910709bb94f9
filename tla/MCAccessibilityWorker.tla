------------------------- MODULE MCAccessibilityWorker -------------------------
(* The instance of AccessibilityWorker for TLC: an editor, a password manager  *)
(* that is denied under its executable's name, a service that cannot be        *)
(* identified, and a terminal with an adapter.                                 *)
EXTENDS AccessibilityWorker, TLC

CONSTANTS editor, vault, service, terminal

MCName == (editor :> "Editor") @@ (vault :> "Notes") @@ (service :> "Service")
          @@ (terminal :> "Terminal")
MCExecutable == (editor :> "editor.exe") @@ (vault :> "KeePass.exe")
                @@ (service :> Unknown) @@ (terminal :> "WindowsTerminal.exe")
MCNormal == ("Editor" :> "editor") @@ ("editor.exe" :> "editor")
            @@ ("Notes" :> "notes") @@ ("KeePass.exe" :> "keepass")
            @@ ("Service" :> "service") @@ ("Terminal" :> "terminal")
            @@ ("WindowsTerminal.exe" :> "windowsterminal")
=============================================================================
