SPECIFICATION Spec
CONSTANTS
  Emails = {"ada", "ben"}
  Numbers = {1, 2}
  Browsers = {"laptop", "phone"}
  Sessions = {"s1", "s2", "s3"}
  BrowserOf <- Tabs
  Lifetime = 2
  MaxNow = 2
  Registered <- AdaOnly
  OpenCookie <- AdaSignedIn
  NoNumber = NoNumber  NoToken = NoToken  NoRow = NoRow
INVARIANTS TypeOK CreatedIsComplete OneRegistration GrantedIsLive GrantedOnce RotationSpends CookieIsCurrent
PROPERTIES SpentIsRefused RevokedForGood
