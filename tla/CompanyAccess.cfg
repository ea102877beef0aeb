\* Two pages of one browser and one of another, one administrator; two logins and one
\* request of the administrator's, or one login and two.
SPECIFICATION Spec
CONSTANTS
  t1 = t1
  t2 = t2
  t3 = t3
  b1 = b1
  b2 = b2
  Browsers = {b1, b2}
  Tabs = {t1, t2, t3}
  BrowserOf <- SomeBrowsers
  Admins = {a1}
  Features = {attendance, zk_device_pin}
  OptIn = {zk_device_pin}
  MaxTime = 1
  MaxLogins = 2
  MaxChanges = 2
  MaxEvents = 3
  None = None
CHECK_DEADLOCK FALSE
SYMMETRY Pages
INVARIANTS NoFalseAlarm EndedStaysEnded FeaturesChosen
