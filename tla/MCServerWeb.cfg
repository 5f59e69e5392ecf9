CONSTANTS
  telnet = telnet
  browser = browser
  console = console
  Telnets <- OneTelnet
  Browsers <- OneBrowser
  Consoles <- OneConsole
  NoClient = NoClient
  Backlog = 2
  MaxInbox = 2

SPECIFICATION FairSpec

PROPERTY RequestsServed
